---- MODULE Spec2Model ----
(****************************************************************************)
(* pi-rewind-hook: prompt-to-code attribution and checkpoint/restore.       *)
(*                                                                          *)
(* The module models                                                        *)
(*   - the snapshot store (git) as far as the extension reads it: trees,    *)
(*     full-context unified diffs, numstat, refs;                           *)
(*   - the diff service (parseUnifiedDiff, computeLineDiff);                *)
(*   - the attribution engine (applyDiffToAttribution, buildAttribution,    *)
(*     resolveAttributionForCommit);                                        *)
(*   - the commit finalizer (handleCommitDetected) and the trace log;       *)
(*   - the checkpoint manager and the host-event handlers.                  *)
(*                                                                          *)
(* Twelve specifications share the variables:                               *)
(*   SpecAttr     the attribution engine applied to bounded inputs,         *)
(*   SpecCommit   the trace lifecycle of one session (turns, edits,         *)
(*                commits, finalization),                                   *)
(*   Spec         the checkpoint manager of one session at its cap          *)
(*                (turns, checkpoint creation, pruning),                    *)
(*   SpecRestore  restore and undo from the fork and tree dialogs; a git    *)
(*                command of restoreWithBackup may throw or exit non-zero,  *)
(*   SpecTwo      two extension instances, one per session, on one          *)
(*                repository,                                               *)
(*   SpecLog      the trace log as a file of lines under appendTrace and    *)
(*                removeTraces,                                             *)
(*   SpecTrace    the trace lifecycle with session restarts and `git        *)
(*                commit` tool results inside and outside a loop,           *)
(*   SpecTool     tool results of any command, on a new repository and      *)
(*                on one whose trace log is at its cap,                     *)
(*   SpecBlame    /trace blame requests and runs of the standalone CLI      *)
(*                blame on a repository with two traces, commits, and       *)
(*                notes of other writers,                                   *)
(*   SpecDiff     the diff engine and its cache over the lookups of a       *)
(*                session,                                                  *)
(*   SpecCapture  captureWorktree with a step that may fail,                *)
(*   SpecFault    sessions inside and outside a repository, session         *)
(*                switches in the middle of a loop, and handlers whose      *)
(*                commands may throw or exit non-zero.                      *)
(****************************************************************************)
EXTENDS Integers, Sequences, FiniteSets, TLC

\* ------------------------------------------------------------------------
\* Bounds of the model
\* ------------------------------------------------------------------------

\* Longest file, in lines, that the attribution inputs hold.
MaxLines == 2
\* Most traces composed by one buildAttribution run of SpecAttr.
MaxSteps == 2
\* Longest attribution vector handed to applyDiffToAttribution / range
\* resolution directly.
MaxVecLen == 3
\* Most hunks in a hunk sequence handed to applyDiffToAttribution directly.
MaxHunks == 2
\* Most lines in one such hunk.
MaxHunkLines == 2

\* ------------------------------------------------------------------------
\* Values
\* ------------------------------------------------------------------------

\* AttributionEntry = string | null  (part_000:6)
Null == "null"

\* Line texts of the modelled files.
LineTexts == {"a", "b"}

\* Paths of the modelled repository.
Files == {"bar.ts", "foo.ts"}

\* Trace ids (crypto.randomUUID() in the source: fresh per record), by the
\* number of the record.
TraceIdOf(i) == "T" \o ToString(i)

SeqsUpTo(S, n) == UNION {[1..k -> S] : k \in 0..n}

Max(x, y) == IF x >= y THEN x ELSE y

\* A file of a tree: absent, or its lines and its executable bit.
Absent == [present |-> FALSE, lines |-> <<>>, exec |-> FALSE]

FileStatesUpTo(n) ==
  {Absent} \cup [present : {TRUE}, lines : SeqsUpTo(LineTexts, n), exec : BOOLEAN]

\* ------------------------------------------------------------------------
\* The snapshot store: what `git diff-tree` prints
\* ------------------------------------------------------------------------

RECURSIVE LcsLen(_, _)
LcsLen(b, a) ==
  IF b = <<>> \/ a = <<>> THEN 0
  ELSE IF Head(b) = Head(a) THEN 1 + LcsLen(Tail(b), Tail(a))
  ELSE Max(LcsLen(Tail(b), a), LcsLen(b, Tail(a)))

\* The body of a -U99999 hunk: a shortest edit script from b to a, every
\* unchanged line present as a context line, deletions before insertions.
RECURSIVE EditScript(_, _)
EditScript(b, a) ==
  IF b = <<>> THEN [i \in 1..Len(a) |-> <<"+", a[i]>>]
  ELSE IF a = <<>> THEN [i \in 1..Len(b) |-> <<"-", b[i]>>]
  ELSE IF Head(b) = Head(a)
    THEN << <<" ", Head(a)>> >> \o EditScript(Tail(b), Tail(a))
  ELSE IF LcsLen(Tail(b), a) >= LcsLen(b, Tail(a))
    THEN << <<"-", Head(b)>> >> \o EditScript(Tail(b), a)
  ELSE << <<"+", Head(a)>> >> \o EditScript(b, Tail(a))

\* One file section of `git diff-tree -r -p -U99999 before after`, after the
\* "diff --git " split: a sequence of <<kind, payload>> lines.  A section
\* whose content did not change (mode change, empty file created or
\* deleted) has no ---/+++ lines and no hunk.
PatchSection(path, fb, fa) ==
  LET modeLines ==
        IF ~fb.present THEN << <<"new file mode", "">> >>
        ELSE IF ~fa.present THEN << <<"deleted file mode", "">> >>
        ELSE IF fb.exec # fa.exec THEN << <<"old mode", "">>, <<"new mode", "">> >>
        ELSE <<>>
      body ==
        IF fb.lines = fa.lines THEN <<>>
        ELSE << <<"---", IF fb.present THEN path ELSE "/dev/null">>,
                <<"+++", IF fa.present THEN path ELSE "/dev/null">>,
                <<"@@", "">> >> \o EditScript(fb.lines, fa.lines)
  IN [header |-> path, lines |-> modeLines \o body]

\* `git diff-tree -r -p -U99999 before after`: one section per path that
\* differs between the two trees, in path order.
RECURSIVE PatchSectionsOver(_, _, _)
PatchSectionsOver(paths, tb, ta) ==
  IF paths = <<>> THEN <<>>
  ELSE (IF tb[Head(paths)] = ta[Head(paths)] THEN <<>>
        ELSE << PatchSection(Head(paths), tb[Head(paths)], ta[Head(paths)]) >>)
       \o PatchSectionsOver(Tail(paths), tb, ta)

SortedFiles == <<"bar.ts", "foo.ts">>

GitDiffTreePatch(tb, ta) == PatchSectionsOver(SortedFiles, tb, ta)

\* `git diff-tree --numstat -r -z before after`: the paths that differ,
\* in path order (content, mode, creation and deletion all count).
RECURSIVE NumstatOver(_, _, _)
NumstatOver(paths, tb, ta) ==
  IF paths = <<>> THEN <<>>
  ELSE (IF tb[Head(paths)] = ta[Head(paths)] THEN <<>> ELSE <<Head(paths)>>)
       \o NumstatOver(Tail(paths), tb, ta)

GitDiffTreeNumstat(tb, ta) == NumstatOver(SortedFiles, tb, ta)

\* ------------------------------------------------------------------------
\* Diff service
\* ------------------------------------------------------------------------

\* extractPath: null for /dev/null, else the path without its a/ b/ prefix.
extractPath(payload) == IF payload = "/dev/null" THEN Null ELSE payload

\* The first loop of parseUnifiedDiff over a section: the --- and +++ paths,
\* stopping at the first +++ line.
RECURSIVE SectionPaths(_, _)
SectionPaths(lines, minusPath) ==
  IF lines = <<>> THEN [minus |-> minusPath, plus |-> Null]
  ELSE IF Head(lines)[1] = "---"
    THEN SectionPaths(Tail(lines), extractPath(Head(lines)[2]))
  ELSE IF Head(lines)[1] = "+++"
    THEN [minus |-> minusPath, plus |-> extractPath(Head(lines)[2])]
  ELSE SectionPaths(Tail(lines), minusPath)

HunkTypeOf(kind) ==
  IF kind = "+" THEN "add" ELSE IF kind = "-" THEN "delete" ELSE "equal"

\* The second loop of parseUnifiedDiff: after the first @@ line, +, - and
\* space lines extend the last hunk when it has their type and open a new
\* hunk otherwise; every other line is skipped.
RECURSIVE SectionHunks(_, _, _)
SectionHunks(lines, inHunk, hunks) ==
  IF lines = <<>> THEN hunks
  ELSE LET kind == Head(lines)[1]
           text == Head(lines)[2]
       IN IF kind = "@@" THEN SectionHunks(Tail(lines), TRUE, hunks)
          ELSE IF ~inHunk THEN SectionHunks(Tail(lines), inHunk, hunks)
          ELSE IF kind \in {"+", "-", " "}
            THEN LET n == Len(hunks)
                     type == HunkTypeOf(kind)
                 IN IF n > 0 /\ hunks[n].type = type
                      THEN SectionHunks(Tail(lines), inHunk,
                             [hunks EXCEPT ![n].lines = Append(@, text)])
                      ELSE SectionHunks(Tail(lines), inHunk,
                             Append(hunks, [type |-> type, lines |-> <<text>>]))
          ELSE SectionHunks(Tail(lines), inHunk, hunks)

\* parseUnifiedDiff: the map path -> hunks, as a sequence of <<path, hunks>>;
\* a section without a --- or +++ path is skipped.
RECURSIVE parseUnifiedDiff(_)
parseUnifiedDiff(sections) ==
  IF sections = <<>> THEN <<>>
  ELSE LET p == SectionPaths(Head(sections).lines, Null)
           filePath == IF p.plus # Null THEN p.plus ELSE p.minus
       IN (IF filePath = Null THEN <<>>
           ELSE << <<filePath, SectionHunks(Head(sections).lines, FALSE, <<>>)>> >>)
          \o parseUnifiedDiff(Tail(sections))

\* pairDiffs.get(filePath) || []
RECURSIVE MapGet(_, _)
MapGet(map, key) ==
  IF map = <<>> THEN <<>>
  ELSE IF Head(map)[1] = key THEN Head(map)[2]
  ELSE MapGet(Tail(map), key)

\* computeLineDiff on two snapshots given with their trees: the identity
\* fast path on equal ids, else the parsed hunks of the pair for the path.
lineDiff(beforeSha, afterSha, tb, ta, filePath) ==
  IF beforeSha = afterSha THEN <<>>
  ELSE MapGet(parseUnifiedDiff(GitDiffTreePatch(tb, ta)), filePath)

\* ------------------------------------------------------------------------
\* Attribution engine
\* ------------------------------------------------------------------------

\* One iteration of the hunk loop of applyDiffToAttribution on the pair
\* <<srcIdx, result>>.
ApplyHunk_NoFill(st, hunk, traceId, attribution) ==
  LET n == Len(hunk.lines)
      have == IF st.srcIdx >= Len(attribution) THEN 0
              ELSE IF st.srcIdx + n <= Len(attribution) THEN n
              ELSE Len(attribution) - st.srcIdx
  IN IF hunk.type = "equal"
       THEN [srcIdx |-> st.srcIdx + n,
             result |-> st.result \o [j \in 1..have |-> attribution[st.srcIdx + j]]]
     ELSE IF hunk.type = "delete"
       THEN [srcIdx |-> st.srcIdx + n, result |-> st.result]
     ELSE [srcIdx |-> st.srcIdx,
           result |-> st.result \o [j \in 1..n |-> traceId]]

ApplyHunk_DeleteKeepsIndex(st, hunk, traceId, attribution) ==
  LET n == Len(hunk.lines)
  IN IF hunk.type = "equal"
       THEN [srcIdx |-> st.srcIdx + n,
             result |-> st.result \o
               [j \in 1..n |-> IF st.srcIdx + j - 1 < Len(attribution)
                                 THEN attribution[st.srcIdx + j] ELSE Null]]
     ELSE IF hunk.type = "delete"
       THEN [srcIdx |-> st.srcIdx, result |-> st.result]
     ELSE [srcIdx |-> st.srcIdx,
           result |-> st.result \o [j \in 1..n |-> traceId]]

ApplyHunk(st, hunk, traceId, attribution) ==
  LET n == Len(hunk.lines)
  IN IF hunk.type = "equal"
       THEN [srcIdx |-> st.srcIdx + n,
             result |-> st.result \o
               [j \in 1..n |-> IF st.srcIdx + j - 1 < Len(attribution)
                                 THEN attribution[st.srcIdx + j] ELSE Null]]
     ELSE IF hunk.type = "delete"
       THEN [srcIdx |-> st.srcIdx + n, result |-> st.result]
     ELSE [srcIdx |-> st.srcIdx,
           result |-> st.result \o [j \in 1..n |-> traceId]]

RECURSIVE ApplyHunks(_, _, _, _)
ApplyHunks(st, hunks, traceId, attribution) ==
  IF hunks = <<>> THEN st
  ELSE ApplyHunks(ApplyHunk(st, Head(hunks), traceId, attribution),
                  Tail(hunks), traceId, attribution)

applyDiffToAttribution(attribution, hunks, traceId) ==
  ApplyHunks([srcIdx |-> 0, result |-> <<>>], hunks, traceId, attribution).result

\* The gap and terminal steps of buildAttribution on the hunks of the pair:
\* applied only when the diff has hunks.
gapStep(attribution, gapHunks) ==
  IF Len(gapHunks) > 0
    THEN applyDiffToAttribution(attribution, gapHunks, Null)
    ELSE attribution

\* The trace step of buildAttribution: applied unconditionally.
traceStep(attribution, traceHunks, traceId) ==
  applyDiffToAttribution(attribution, traceHunks, traceId)

\* The range walk of resolveAttributionForCommit over one vector, from
\* 0-based position i.
RECURSIVE RunEnd(_, _, _)
RunEnd(attribution, i, traceId) ==
  IF i < Len(attribution) /\ attribution[i + 1] = traceId
    THEN RunEnd(attribution, i + 1, traceId)
    ELSE i

RECURSIVE RangeWalk(_, _, _)
RangeWalk(attribution, i, fileRanges) ==
  IF ~(i < Len(attribution)) THEN fileRanges
  ELSE LET traceId == attribution[i + 1]
       IN IF traceId = Null THEN RangeWalk(attribution, i + 1, fileRanges)
          ELSE LET end == RunEnd(attribution, i, traceId)
               IN RangeWalk(attribution, end,
                    Append(fileRanges,
                      [start |-> i + 1, end |-> end, trace_id |-> traceId]))

resolveRanges_OffByOne(attribution) ==
  LET r == RangeWalk(attribution, 0, <<>>)
  IN [k \in 1..Len(r) |-> [r[k] EXCEPT !.end = @ + 1]]

resolveRanges(attribution) == RangeWalk(attribution, 0, <<>>)

\* `if (fileRanges.length > 0) resolved[file] = fileRanges`: the resolved
\* map as a sequence of <<path, ranges>> in insertion order.
resolvedPut(resolved, file, fileRanges) ==
  IF Len(fileRanges) > 0 THEN Append(resolved, <<file, fileRanges>>) ELSE resolved

\* ------------------------------------------------------------------------
\* Snapshots and commits
\* ------------------------------------------------------------------------

\* No snapshot id (null / undefined in the source).
NoSha == 0

NoTree == [f \in Files |-> Absent]

\* A commit object: its tree and its parent (NoSha for a parentless commit,
\* which is what `git commit-tree <tree> -m ...` creates).  The id of a
\* commit is its position in the store; ids are never reused.
CommitObject(tree, parent) == [tree |-> tree, parent |-> parent]

ParentTree(st, sha) ==
  IF st[sha].parent = NoSha THEN NoTree ELSE st[st[sha].parent].tree

\* `git diff-tree --root --no-commit-id --name-only -r -z HEAD`
CommittedFiles(st, h) == NumstatOver(SortedFiles, ParentTree(st, h), st[h].tree)

\* computeLineDiff against the store.
computeLineDiff(st, beforeSha, afterSha, filePath) ==
  lineDiff(beforeSha, afterSha, st[beforeSha].tree, st[afterSha].tree, filePath)

InSeq(seq, x) == \E i \in DOMAIN seq : seq[i] = x

\* ------------------------------------------------------------------------
\* Trace log (trace.ts)
\* ------------------------------------------------------------------------

MAX_TRACES == 100

NewTraceRecord_AfterTwice(paths, beforeSha, afterSha) ==
  [id |-> TraceIdOf(afterSha),
   files |-> [i \in DOMAIN paths |-> [path |-> paths[i], ranges |-> <<>>]],
   before |-> afterSha,
   after |-> afterSha,
   timestamp |-> afterSha]

\* The record agent_end and handleCommitDetected build from the numstat
\* entries: one file entry per path, one conversation with no ranges.
\* timestamp is `new Date().toISOString()` read right after the after
\* snapshot was taken: the clock is counted in snapshots, so two records
\* compare by timestamp as the instants they were built at.
NewTraceRecord(paths, beforeSha, afterSha) ==
  [id |-> TraceIdOf(afterSha),
   files |-> [i \in DOMAIN paths |-> [path |-> paths[i], ranges |-> <<>>]],
   before |-> beforeSha,
   after |-> afterSha,
   timestamp |-> afterSha]

toKeep_WholeCap(records, record) ==
  Append(SubSeq(records, Len(records) - MAX_TRACES + 1, Len(records)), record)

\* records.slice(records.length - MAX_TRACES + 1) followed by the new record.
toKeep(records, record) ==
  Append(SubSeq(records, Len(records) - MAX_TRACES + 2, Len(records)), record)

appendTrace_Prepends(records, record) == <<record>> \o records

appendTrace_Drops(records, record) == records

\* appendTrace as a function of the records read and the record appended,
\* for a log whose every line is a record and ends with a newline.
appendTrace(records, record) ==
  IF Len(records) >= MAX_TRACES
    THEN toKeep(records, record)
    ELSE Append(records, record)

removeTraces(records, idsToRemove) ==
  SelectSeq(records, LAMBDA r : r.id \notin idsToRemove)

collectTraceShas(traces) ==
  {traces[i].before : i \in DOMAIN traces} \cup {traces[i].after : i \in DOMAIN traces}

cleanOrphanedTraceRefs_Inverted(existingRefs, neededShas) ==
  {sha \in existingRefs : sha \notin neededShas}

\* The refs under refs/pi-trace-shas/ that survive: those of a needed sha.
cleanOrphanedTraceRefs(existingRefs, neededShas) ==
  {sha \in existingRefs : sha \in neededShas}

Touches(t, file) == \E i \in DOMAIN t.files : t.files[i].path = file

\* ------------------------------------------------------------------------
\* buildAttribution and resolveAttributionForCommit against the store
\* ------------------------------------------------------------------------

\* The for loop of buildAttribution over the traces lo..hi (1-based), begun
\* with the vector `attribution`: the iterations of the first half, then
\* those of the second half on the vector the first half left.
RECURSIVE BuildLoop(_, _, _, _, _, _)
BuildLoop(traces, lo, hi, attribution, filePath, st) ==
  IF lo > hi THEN attribution
  ELSE IF lo < hi
    THEN LET mid == (lo + hi) \div 2
             half == BuildLoop(traces, lo, mid, attribution, filePath, st)
         IN BuildLoop(traces, mid + 1, hi, half, filePath, st)
  ELSE LET i == lo
           t == traces[i]
           prevAfter == traces[i - 1].after
           afterGap ==
             IF i > 1 /\ prevAfter # t.before
               THEN gapStep(attribution, computeLineDiff(st, prevAfter, t.before, filePath))
               ELSE attribution
       IN traceStep(afterGap, computeLineDiff(st, t.before, t.after, filePath), t.id)

buildAttribution(traces, filePath, st, commitSha) ==
  IF Len(traces) = 0 THEN <<>>
  ELSE IF Len(traces) = 1
    THEN LET t == traces[1]
             attribution ==
               traceStep(<<>>, computeLineDiff(st, t.before, t.after, filePath), t.id)
         IN IF commitSha # NoSha
              THEN gapStep(attribution, computeLineDiff(st, t.after, commitSha, filePath))
              ELSE attribution
  ELSE LET attribution == BuildLoop(traces, 1, Len(traces), <<>>, filePath, st)
           lastAfter == traces[Len(traces)].after
       IN IF commitSha # NoSha
            THEN gapStep(attribution, computeLineDiff(st, lastAfter, commitSha, filePath))
            ELSE attribution

\* The loop of resolveAttributionForCommit over the committed files; acc is
\* the pair (resolved, usedTraceIds).
RECURSIVE ResolveFiles(_, _, _, _, _)
ResolveFiles(traces, files, commitSha, st, acc) ==
  IF files = <<>> THEN acc
  ELSE LET file == Head(files)
           touchingTraces == SelectSeq(traces, LAMBDA t : Touches(t, file))
       IN IF Len(touchingTraces) = 0
            THEN ResolveFiles(traces, Tail(files), commitSha, st, acc)
            ELSE LET attribution == buildAttribution(touchingTraces, file, st, commitSha)
                     fileRanges == resolveRanges(attribution)
                 IN ResolveFiles(traces, Tail(files), commitSha, st,
                      [resolved |-> resolvedPut(acc.resolved, file, fileRanges),
                       traceIds |-> acc.traceIds \cup
                                    {fileRanges[k].trace_id : k \in DOMAIN fileRanges}])

resolveAttributionForCommit(traces, committedFiles, commitSha, st) ==
  ResolveFiles(traces, committedFiles, commitSha, st,
               [resolved |-> <<>>, traceIds |-> {}])

\* ------------------------------------------------------------------------
\* Commit finalizer (persist.ts): the note
\* ------------------------------------------------------------------------

HasKey(map, key) == \E i \in DOMAIN map : map[i][1] = key

\* fileRanges.filter(r => r.trace_id === t.id).map(...)
traceRanges(fileRanges, id) ==
  LET own == SelectSeq(fileRanges, LAMBDA r : r.trace_id = id)
  IN [k \in DOMAIN own |-> [start_line |-> own[k].start, end_line |-> own[k].end]]

projectFiles_KeepAll(files, committedFiles) == files

\* copy.files.filter(f => committedFiles.includes(f.path))
projectFiles(files, committedFiles) ==
  SelectSeq(files, LAMBDA f : InSeq(committedFiles, f.path))

finalizeFile(file, resolved, id) ==
  IF HasKey(resolved, file.path)
    THEN [file EXCEPT !.ranges = traceRanges(MapGet(resolved, file.path), id)]
    ELSE file

finalizeTrace(t, committedFiles, resolved) ==
  LET kept == projectFiles(t.files, committedFiles)
  IN [t EXCEPT !.files = [i \in DOMAIN kept |-> finalizeFile(kept[i], resolved, t.id)]]

usedTraces_KeepAll(matchingTraces, usedTraceIds) == matchingTraces

\* matchingTraces.filter(t => usedTraceIds.has(t.id))
usedTraces(matchingTraces, usedTraceIds) ==
  SelectSeq(matchingTraces, LAMBDA t : t.id \in usedTraceIds)

finalizedTraces(matchingTraces, usedTraceIds, committedFiles, resolved) ==
  LET used == usedTraces(matchingTraces, usedTraceIds)
  IN [i \in DOMAIN used |-> finalizeTrace(used[i], committedFiles, resolved)]

\* The paths `git status --porcelain -z -- <paths>` reports: those whose
\* working-tree state differs from the head commit.
dirtyPaths(paths, wt, headTree) == {f \in paths : wt[f] # headTree[f]}

\* The ids of the traces whose files are all clean.
cleanTraceIds(traces, dirty) ==
  {traces[i].id : i \in {j \in DOMAIN traces :
      \A k \in DOMAIN traces[j].files : traces[j].files[k].path \notin dirty}}

\* ------------------------------------------------------------------------
\* State
\* ------------------------------------------------------------------------

VARIABLES
  worktree,           \* the working tree: path -> file state
  store,              \* the object store: sequence of commit objects, id = position
  head,               \* HEAD: id of the head commit
  notes,              \* refs/notes/pi-trace: set of [sha, note]
  traceRefs,          \* refs/pi-trace-shas/<sha>: set of ids
  refs,               \* refs/pi-checkpoints/<name>: set of [name, sha]
  traceLog,           \* .pi-trace/traces.jsonl: sequence of trace records
  sessionId,          \* extension state (index.ts)
  checkpoints,
  resumeCheckpoint,
  pendingCheckpoint,
  traceBeforeSha,
  fin,                \* what the last finalization did (observation only)
  pure,               \* SpecAttr: the engine function under evaluation
  last,               \* what the last event was and returned (observation only)
  parked              \* the closure state of a second extension instance

vars ==
  <<worktree, store, head, notes, traceRefs, refs, traceLog, sessionId,
    checkpoints, resumeCheckpoint, pendingCheckpoint, traceBeforeSha, fin, pure,
    last, parked>>

repoVars == <<worktree, store, head, notes, traceRefs, refs, traceLog>>

extVars ==
  <<sessionId, checkpoints, resumeCheckpoint, pendingCheckpoint, traceBeforeSha>>

Idle == [fn |-> "idle"]

\* Session ids and entry ids of the host.
Sessions == {"S1", "S2"}

Entries == {"e1", "e2"}

\* The name of a ref under refs/pi-checkpoints/:
\*   checkpoint-<session>-<ts>-<entry>, checkpoint-<ts>-<entry> (legacy),
\*   checkpoint-resume-<session>-<ts>, before-restore-<session>-<ts>.
RefName(kind, session, ts, entry) ==
  [kind |-> kind, session |-> session, ts |-> ts, entry |-> entry]

NoRef == RefName("none", Null, 0, Null)

NoPending == [commitSha |-> NoSha, timestamp |-> 0]

\* No finalization observed.  ran: handleCommitDetected ran; wrote: it wrote
\* a note; opened: the trace_before it was given; read: the log as it read
\* it for resolution; returned: its newTraceBeforeSha.
FinNone ==
  [ran |-> FALSE, wrote |-> FALSE, head |-> NoSha,
   note |-> [traces |-> <<>>, resolved |-> <<>>],
   matching |-> <<>>, committed |-> <<>>, rerun |-> FALSE, same |-> TRUE,
   opened |-> NoSha, read |-> <<>>, returned |-> NoSha]

\* No event observed.  result is what the handler returned ("undefined",
\* "cancel", "skipConversationRestore"); called, success: restoreWithBackup
\* ran and what it returned; failed: one of its commands threw or exited
\* non-zero; restored: the success notification was shown; target: the ref
\* it was asked to check out; backup: the snapshot it took; wt: the working
\* tree it found; command, isError: the input and the outcome of the tool
\* call a tool_result reports; file, range, isDirty, results: the request
\* of a /trace blame, what git status said and the results it showed.
LastNone ==
  [event |-> "none", choice |-> "none", turnIndex |-> 0, result |-> "undefined",
   called |-> FALSE, success |-> FALSE, failed |-> FALSE, restored |-> FALSE,
   target |-> NoRef, backup |-> NoSha, wt |-> NoTree,
   command |-> <<>>, isError |-> FALSE,
   file |-> "", range |-> <<>>, isDirty |-> FALSE, results |-> <<>>]

Did(event) == [LastNone EXCEPT !.event = event]

\* The closure state of an instance that has seen no event.
NewInstance ==
  [sessionId |-> Null, checkpoints |-> [e \in Entries |-> NoRef],
   resumeCheckpoint |-> NoRef, pendingCheckpoint |-> NoPending,
   traceBeforeSha |-> NoSha]

\* The extension right after construction (index.ts, the closure's lets).
Constructed ==
  /\ sessionId = Null
  /\ checkpoints = [e \in Entries |-> NoRef]
  /\ resumeCheckpoint = NoRef
  /\ pendingCheckpoint = NoPending
  /\ traceBeforeSha = NoSha
  /\ fin = FinNone
  /\ last = LastNone
  /\ parked = NewInstance

\* ------------------------------------------------------------------------
\* SpecAttr: the attribution engine on bounded inputs
\* ------------------------------------------------------------------------

Vectors == SeqsUpTo({Null, "T1", "T2"}, MaxVecLen)

HunkTypes == {"equal", "add", "delete"}

InputHunks ==
  [type : HunkTypes, lines : SeqsUpTo({"a"}, MaxHunkLines) \ {<<>>}]

\* The path whose attribution SpecAttr builds, and the trees it draws.
AttrFile == "foo.ts"

AttrFileStates == FileStatesUpTo(MaxLines)

TreeWith(fs) == [f \in Files |-> IF f = AttrFile THEN fs ELSE Absent]

\* Source position (1-based) of output line k of a hunk sequence, 0 when
\* the line is in an add hunk: the line-for-line reading of a diff.
RECURSIVE OutSrc(_, _, _)
OutSrc(hunks, k, srcBase) ==
  LET n == Len(Head(hunks).lines)
  IN IF Head(hunks).type = "delete" THEN OutSrc(Tail(hunks), k, srcBase + n)
     ELSE IF k <= n THEN (IF Head(hunks).type = "add" THEN 0 ELSE srcBase + k)
     ELSE IF Head(hunks).type = "add" THEN OutSrc(Tail(hunks), k - n, srcBase)
     ELSE OutSrc(Tail(hunks), k - n, srcBase + n)

RECURSIVE LinesOfTypes(_, _)
LinesOfTypes(hunks, types) ==
  IF hunks = <<>> THEN 0
  ELSE (IF Head(hunks).type \in types THEN Len(Head(hunks).lines) ELSE 0)
       + LinesOfTypes(Tail(hunks), types)

\* Who inserted each line of the file, followed line for line through the
\* diff fb -> fa whose inserted lines are by `tag`.
OriginAfter(origin, fb, fa, tag) ==
  IF fb.lines = fa.lines THEN origin
  ELSE LET hunks == SectionHunks(PatchSection(AttrFile, fb, fa).lines, FALSE, <<>>)
       IN [k \in 1..Len(fa.lines) |->
             IF OutSrc(hunks, k, 0) = 0 THEN tag ELSE origin[OutSrc(hunks, k, 0)]]

\* applyDiffToAttribution on an arbitrary vector, hunk sequence and tag.
CallApply ==
  /\ pure = Idle
  /\ \E A \in Vectors, H \in SeqsUpTo(InputHunks, MaxHunks), t \in {Null, "T3"} :
       pure' = [fn |-> "apply", attribution |-> A, hunks |-> H, traceId |-> t,
                result |-> applyDiffToAttribution(A, H, t)]
  /\ UNCHANGED <<repoVars, extVars, fin, last, parked>>

\* The range walk and the resolved-map insertion on an arbitrary vector.
CallResolve ==
  /\ pure = Idle
  /\ \E A \in Vectors :
       pure' = [fn |-> "resolve", attribution |-> A,
                ranges |-> resolveRanges(A),
                resolved |-> resolvedPut(<<>>, AttrFile, resolveRanges(A))]
  /\ UNCHANGED <<repoVars, extVars, fin, last, parked>>

\* buildAttribution, one statement of its loop per action.  BuildBegin:
\* the before-snapshot of the first trace; the vector starts empty.
BuildBegin ==
  /\ pure = Idle
  /\ \E fs \in AttrFileStates :
       pure' = [fn |-> "build", pc |-> "trace", n |-> 0,
                attribution |-> <<>>,
                cur |-> fs,
                origin |-> [k \in 1..Len(fs.lines) |-> "pre"],
                step |-> [kind |-> "begin", same |-> FALSE, kept |-> TRUE]]
  /\ UNCHANGED <<repoVars, extVars, fin, last, parked>>

\* The trace diff (before -> after) of trace n+1, inserted lines tagged
\* with its id.
BuildTrace ==
  /\ pure.fn = "build" /\ pure.pc = "trace"
  /\ \E fa \in AttrFileStates, same \in BOOLEAN :
       /\ same => fa = pure.cur
       /\ ~same => fa # pure.cur
       /\ LET beforeSha == 1
              afterSha == IF same THEN beforeSha ELSE beforeSha + 1
              id == TraceIdOf(pure.n + 1)
              hunks == lineDiff(beforeSha, afterSha,
                                TreeWith(pure.cur), TreeWith(fa), AttrFile)
              A == traceStep(pure.attribution, hunks, id)
          IN pure' = [pure EXCEPT
                 !.pc = "next", !.n = @ + 1, !.attribution = A,
                 !.cur = fa,
                 !.origin = OriginAfter(pure.origin, pure.cur, fa, id),
                 !.step = [kind |-> "trace", same |-> same,
                           kept |-> A = pure.attribution]]
  /\ UNCHANGED <<repoVars, extVars, fin, last, parked>>

\* The gap diff (prev.after -> cur.before) before a further trace, skipped
\* when the two ids are equal; inserted lines are null.
BuildGap ==
  /\ pure.fn = "build" /\ pure.pc = "next" /\ pure.n < MaxSteps
  /\ \E fb \in AttrFileStates, same \in BOOLEAN :
       /\ same => fb = pure.cur
       /\ LET prevAfter == 1
              curBefore == IF same THEN prevAfter ELSE prevAfter + 1
              A == IF prevAfter # curBefore
                     THEN gapStep(pure.attribution,
                            lineDiff(prevAfter, curBefore,
                                     TreeWith(pure.cur), TreeWith(fb), AttrFile))
                     ELSE pure.attribution
          IN pure' = [pure EXCEPT
                 !.pc = "trace", !.attribution = A,
                 !.cur = fb,
                 !.origin = OriginAfter(pure.origin, pure.cur, fb, "gap"),
                 !.step = [kind |-> "gap", same |-> same,
                           kept |-> A = pure.attribution]]
  /\ UNCHANGED <<repoVars, extVars, fin, last, parked>>

\* The terminal gap (last.after -> commitSha), then return.
BuildTerminal ==
  /\ pure.fn = "build" /\ pure.pc = "next"
  /\ \E ft \in AttrFileStates, same \in BOOLEAN :
       /\ same => ft = pure.cur
       /\ LET lastAfter == 1
              commitSha == IF same THEN lastAfter ELSE lastAfter + 1
              A == gapStep(pure.attribution,
                     lineDiff(lastAfter, commitSha,
                              TreeWith(pure.cur), TreeWith(ft), AttrFile))
          IN pure' = [pure EXCEPT
                 !.pc = "done", !.attribution = A,
                 !.cur = ft,
                 !.origin = OriginAfter(pure.origin, pure.cur, ft, "gap"),
                 !.step = [kind |-> "terminal", same |-> same,
                           kept |-> A = pure.attribution]]
  /\ UNCHANGED <<repoVars, extVars, fin, last, parked>>

NextAttr ==
  CallApply \/ CallResolve \/ BuildBegin \/ BuildTrace \/ BuildGap \/ BuildTerminal

InitAttr ==
  /\ pure = Idle
  /\ Constructed
  /\ worktree = NoTree
  /\ store = <<CommitObject(NoTree, NoSha)>>
  /\ head = 1
  /\ notes = {} /\ traceRefs = {} /\ refs = {}
  /\ traceLog = <<>>

SpecAttr == InitAttr /\ [][NextAttr]_vars

\* ------------------------------------------------------------------------
\* Checkpoint refs (index.ts)
\* ------------------------------------------------------------------------

MAX_CHECKPOINTS == 100

\* `git update-ref <name> <sha>`.
UpdateRef(rs, name, sha) ==
  {r \in rs : r.name # name} \cup {[name |-> name, sha |-> sha]}

\* for-each-ref --sort=creatordate: the creator date of a ref is the
\* committer date of its commit; commits are created one after the other,
\* so their ids order them, and refs on one commit are ordered by name.
CreatedBefore(r, q) ==
  \/ r.sha < q.sha
  \/ r.sha = q.sha /\ r.name.ts < q.name.ts

Newest(rs) == CHOOSE r \in rs : \A q \in rs : q = r \/ ~CreatedBefore(r, q)

Loadable_AnySession(rs, currentSessionId, e) ==
  {r \in rs : r.name.entry = e /\ r.name.kind \in {"checkpoint", "legacy"}}

\* The refs rebuildCheckpointsMap may load for entry id e: new-format
\* checkpoints of the current session and legacy checkpoints.
Loadable(rs, currentSessionId, e) ==
  {r \in rs : /\ r.name.entry = e
              /\ \/ r.name.kind = "checkpoint" /\ r.name.session = currentSessionId
                 \/ r.name.kind = "legacy"}

\* rebuildCheckpointsMap: newest first, the first ref seen per entry id wins.
rebuildCheckpointsMap(rs, currentSessionId) ==
  [e \in Entries |->
     IF Loadable(rs, currentSessionId, e) = {} THEN NoRef
     ELSE Newest(Loadable(rs, currentSessionId, e)).name]

\* findBeforeRestoreRef: --sort=-creatordate --count=1 over the session's
\* before-restore refs; the empty set when there is none.
findBeforeRestoreRef(rs, currentSessionId) ==
  LET own == {r \in rs : r.name.kind = "before-restore"
                          /\ r.name.session = currentSessionId}
  IN IF own = {} THEN {} ELSE {Newest(own)}

checkpointRefs_AllSessions(rs, currentSessionId) ==
  {r \in rs : r.name.kind = "checkpoint"}

\* The regular checkpoints of the session, as pruneCheckpoints filters them.
checkpointRefs(rs, currentSessionId) ==
  {r \in rs : r.name.kind = "checkpoint" /\ r.name.session = currentSessionId}

toDelete_SkipOldest(rs, currentSessionId) ==
  LET own == checkpointRefs(rs, currentSessionId)
      excess == Cardinality(own) - MAX_CHECKPOINTS
  IN IF excess > 0
       THEN {r \in own :
               LET older == Cardinality({q \in own : CreatedBefore(q, r)})
               IN excess <= older /\ older < 2 * excess}
       ELSE {}

\* checkpointRefs.slice(0, length - MAX_CHECKPOINTS) of the list sorted
\* oldest first: the refs with fewer than (length - MAX_CHECKPOINTS) older ones.
toDelete(rs, currentSessionId) ==
  LET own == checkpointRefs(rs, currentSessionId)
      excess == Cardinality(own) - MAX_CHECKPOINTS
  IN IF excess > 0
       THEN {r \in own : Cardinality({q \in own : CreatedBefore(q, r)}) < excess}
       ELSE {}

pruneCheckpoints_ClearsEntry(rs, map, currentSessionId) ==
  LET gone == toDelete(rs, currentSessionId)
  IN [refs |-> rs \ gone,
      checkpoints |->
        [e \in Entries |-> IF \E r \in gone : r.name.entry = e THEN NoRef ELSE map[e]]]

\* pruneCheckpoints: the refs and the map after pruning, when for-each-ref
\* and every update-ref -d succeed.
pruneCheckpoints(rs, map, currentSessionId) ==
  LET gone == toDelete(rs, currentSessionId)
  IN [refs |-> rs \ gone,
      checkpoints |->
        [e \in Entries |->
           IF \E r \in gone : r.name.entry = e /\ map[e] = r.name THEN NoRef ELSE map[e]]]

\* ------------------------------------------------------------------------
\* Handlers of the trace lifecycle
\* ------------------------------------------------------------------------

\* captureWorktree: a parentless commit of the working tree; its id.
NewSha == Len(store) + 1

Captured == Append(store, CommitObject(worktree, NoSha))

\* The step of a handler that throws: none of them.
NoFault == "none"

\* resetState: the closure state of a fresh session.
resetState_KeepsSnapshots ==
  [checkpoints |-> [e \in Entries |-> NoRef], resumeCheckpoint |-> NoRef,
   isGitRepo |-> FALSE, sessionId |-> Null,
   pendingCheckpoint |-> pendingCheckpoint, traceBeforeSha |-> traceBeforeSha]

resetState ==
  [checkpoints |-> [e \in Entries |-> NoRef], resumeCheckpoint |-> NoRef,
   isGitRepo |-> FALSE, sessionId |-> Null,
   pendingCheckpoint |-> NoPending, traceBeforeSha |-> NoSha]

\* initializeForSession for session s; inside is what
\* `git rev-parse --is-inside-work-tree` answers (FALSE also when it throws).
\* Outside a work tree the handler returns after resetting the state and
\* taking the session id.
initializeForSession(s, inside) ==
  LET reset == resetState
      resumeId == RefName("resume", s, NewSha, Null)
  IN /\ sessionId' = s
     /\ IF ~inside
          THEN /\ checkpoints' = reset.checkpoints
               /\ resumeCheckpoint' = reset.resumeCheckpoint
               /\ UNCHANGED <<traceRefs, store, refs>>
          ELSE /\ traceRefs' = cleanOrphanedTraceRefs(traceRefs, collectTraceShas(traceLog))
               /\ checkpoints' = rebuildCheckpointsMap(refs, s)
               /\ store' = Captured
               /\ refs' = UpdateRef(refs, resumeId, NewSha)
               /\ resumeCheckpoint' = resumeId
     /\ pendingCheckpoint' = reset.pendingCheckpoint
     /\ traceBeforeSha' = reset.traceBeforeSha
     /\ fin' = FinNone
     /\ last' = Did("session_start")
     /\ UNCHANGED <<worktree, head, notes, traceLog, parked>>

\* session_start / session_switch in a work tree.
session_start(s) == initializeForSession(s, TRUE) /\ UNCHANGED pure

\* turn_start: with turnIndex 0, snapshot the tree for the pending
\* checkpoint and as the before-snapshot of the next trace; a later turn
\* of the loop does nothing.  When captureWorktree throws (fault
\* "capture") the catch clears the pending checkpoint and nothing else.
turn_start_on(turnIndex, fault) ==
  /\ sessionId # Null
  /\ IF turnIndex # 0
       THEN UNCHANGED <<store, pendingCheckpoint, traceBeforeSha>>
       ELSE IF fault = "capture"
         THEN /\ pendingCheckpoint' = NoPending
              /\ UNCHANGED <<store, traceBeforeSha>>
         ELSE /\ store' = Captured
              /\ pendingCheckpoint' = [commitSha |-> NewSha, timestamp |-> NewSha]
              /\ traceBeforeSha' = NewSha
  /\ fin' = FinNone
  /\ last' = [Did("turn_start") EXCEPT !.turnIndex = turnIndex,
                                       !.failed = (turnIndex = 0 /\ fault = "capture")]
  /\ UNCHANGED <<worktree, head, notes, traceRefs, refs, traceLog, sessionId,
                 checkpoints, resumeCheckpoint, parked>>

\* turn_start when every command succeeds.
turn_start(turnIndex) == turn_start_on(turnIndex, NoFault) /\ UNCHANGED pure

\* `if (files.length === 0) return;` in agent_end and
\* `if (files.length > 0)` in handleCommitDetected: a trace is recorded
\* only when the diff yields a file entry.
hasFiles_Always(files) == TRUE

hasFiles(files) == Len(files) > 0

\* What the finally of agent_end leaves in trace_before.
AfterAgentEnd_KeepsOnThrow(threw) == IF threw THEN traceBeforeSha ELSE NoSha

AfterAgentEnd(threw) == NoSha

\* agent_end: record the trace (trace_before -> snapshot) when the diff
\* lists a file; trace_before is cleared in every case.  The faults: the
\* capture throws, the diff-tree throws (after the capture), the first
\* update-ref throws (after the append).  With no trace_before the handler
\* returns at once.
agent_end_on(fault) ==
  /\ sessionId # Null
  /\ IF traceBeforeSha = NoSha
       THEN /\ UNCHANGED <<store, traceLog, traceRefs, traceBeforeSha>>
            /\ last' = Did("agent_end")
       ELSE
     LET afterCommitSha == NewSha
         files == GitDiffTreeNumstat(store[traceBeforeSha].tree, worktree)
         record == NewTraceRecord(files, traceBeforeSha, afterCommitSha)
         threw == \/ fault \in {"capture", "diff"}
                  \/ fault = "update-ref" /\ hasFiles(files)
     IN /\ store' = IF fault = "capture" THEN store ELSE Captured
        /\ IF ~hasFiles(files) \/ fault \in {"capture", "diff"}
             THEN UNCHANGED <<traceLog, traceRefs>>
             ELSE /\ traceLog' = appendTrace(traceLog, record)
                  /\ traceRefs' = IF fault = "update-ref" THEN traceRefs
                                  ELSE traceRefs \cup {traceBeforeSha, afterCommitSha}
        /\ traceBeforeSha' = AfterAgentEnd(threw)
        /\ last' = [Did("agent_end") EXCEPT !.failed = threw]
  /\ fin' = FinNone
  /\ UNCHANGED <<worktree, head, notes, refs, sessionId, checkpoints,
                 resumeCheckpoint, pendingCheckpoint, parked>>

\* agent_end with a trace_before, when every command succeeds.
agent_end == traceBeforeSha # NoSha /\ agent_end_on(NoFault) /\ UNCHANGED pure

\* The note of a commit: the empty set when it has none.
NoteOf(ns, sha) == {n.note : n \in {m \in ns : m.sha = sha}}

\* `git notes add -f`
NotesAdd(ns, sha, note) == {n \in ns : n.sha # sha} \cup {[sha |-> sha, note |-> note]}

\* A command line is the sequence of its words (the text between
\* whitespace).
\* The words that begin with `commit` followed by a word boundary: after
\* `git` and whitespace they match /\bgit\s+commit\b/.
CommitWords == {"commit", "commit-tree", "commit-graph"}

GitThen(command, words) ==
  \E i \in 1..(Len(command) - 1) : command[i] = "git" /\ command[i + 1] \in words

HasWord(command, word) == \E i \in DOMAIN command : command[i] = word

looksLikeGitCommit_AmendToo(command) ==
  /\ GitThen(command, CommitWords)
  /\ ~GitThen(command, {"commit-tree"})
  /\ ~GitThen(command, {"commit-graph"})
  /\ ~HasWord(command, "--dry-run")

looksLikeGitCommit(command) ==
  /\ GitThen(command, CommitWords)
  /\ ~GitThen(command, {"commit-tree"})
  /\ ~GitThen(command, {"commit-graph"})
  /\ ~HasWord(command, "--dry-run")
  /\ ~HasWord(command, "--amend")

\* What the handler of tool_result hands back to the host when a step of
\* the finalization threw: the catch swallows it.
HandlerOutcome_Rethrows(threw) == IF threw THEN "threw" ELSE "undefined"

HandlerOutcome(threw) == "undefined"

\* The trace_before tool_result holds after handleCommitDetected: its
\* newTraceBeforeSha when it returned; the assignment is skipped when it
\* threw.
AssignedBeforeSha(threw, returned) == IF threw THEN traceBeforeSha ELSE returned

\* tool_result: for a command that looks like `git commit` and did not
\* fail, handleCommitDetected, then trace_before := its result; for any
\* other tool result, nothing.  The faults, in the order of the steps: the
\* capture throws; the numstat diff-tree throws; the note write throws
\* (mkdtemp, writeFile or `git notes add`); `git status` throws; the ref
\* cleanup throws (for-each-ref).  A fault at a step the run does not reach
\* has no effect.
tool_result_on(command, isError, fault) ==
  /\ sessionId # Null
  /\ UNCHANGED <<worktree, head, refs, sessionId, checkpoints, resumeCheckpoint,
                 pendingCheckpoint, parked>>
  /\ IF ~looksLikeGitCommit(command) \/ isError
       THEN /\ fin' = FinNone
            /\ last' = [Did("tool_result") EXCEPT !.command = command,
                                                  !.isError = isError]
            /\ UNCHANGED <<store, notes, traceLog, traceRefs, traceBeforeSha>>
       ELSE
     LET open == traceBeforeSha # NoSha
         early == open /\ fault \in {"capture", "diff"}
         midLoopSha == NewSha
         store1 == IF open /\ fault # "capture" THEN Captured ELSE store
         files == IF open /\ ~early
                    THEN GitDiffTreeNumstat(store[traceBeforeSha].tree, worktree)
                    ELSE <<>>
         synthetic == hasFiles(files)
         log1 == IF synthetic
                   THEN appendTrace(traceLog,
                          NewTraceRecord(files, traceBeforeSha, midLoopSha))
                   ELSE traceLog
         refs1 == IF synthetic
                    THEN traceRefs \cup {traceBeforeSha, midLoopSha}
                    ELSE traceRefs
         updatedBeforeSha == IF open THEN midLoopSha ELSE traceBeforeSha
         traces == log1
         commitSha == head
         committedFiles == CommittedFiles(store1, commitSha)
         matchingTraces ==
           SelectSeq(traces,
             LAMBDA t : \E i \in DOMAIN t.files : InSeq(committedFiles, t.files[i].path))
         proceeds == /\ ~early
                     /\ Len(traces) > 0 /\ Len(committedFiles) > 0
                     /\ Len(matchingTraces) > 0
         late == proceeds /\ fault \in {"note", "status", "cleanup"}
         threw == early \/ late
         res == resolveAttributionForCommit(matchingTraces, committedFiles,
                                            commitSha, store1)
         note == [traces |-> finalizedTraces(matchingTraces, res.traceIds,
                                             committedFiles, res.resolved),
                  resolved |-> res.resolved]
         allFilePaths == {f \in Files : \E i \in DOMAIN traces : Touches(traces[i], f)}
         dirty == dirtyPaths(allFilePaths, worktree, store1[head].tree)
         toRemove == cleanTraceIds(traces, dirty)
         remainingTraces == removeTraces(traces, toRemove)
         wrote == proceeds /\ fault # "note"
         removed == proceeds /\ fault \notin {"note", "status"}
         cleaned == proceeds /\ ~late
         notes1 == IF wrote THEN NotesAdd(notes, commitSha, note) ELSE notes
         after == AssignedBeforeSha(threw, updatedBeforeSha)
     IN /\ store' = store1
        /\ notes' = notes1
        /\ traceLog' = IF removed THEN remainingTraces ELSE log1
        /\ traceRefs' = IF cleaned
                          THEN cleanOrphanedTraceRefs(refs1, collectTraceShas(remainingTraces))
                          ELSE refs1
        /\ traceBeforeSha' = after
        /\ last' = [Did("tool_result") EXCEPT !.command = command,
                                              !.isError = isError,
                                              !.failed = threw,
                                              !.result = HandlerOutcome(threw)]
        /\ fin' = [ran |-> TRUE, wrote |-> wrote, head |-> head,
                   note |-> IF wrote THEN note ELSE FinNone.note,
                   matching |-> IF proceeds THEN matchingTraces ELSE <<>>,
                   committed |-> IF proceeds THEN committedFiles ELSE <<>>,
                   rerun |-> fin.ran /\ fin.head = head,
                   same |-> NoteOf(notes1, head) = NoteOf(notes, head),
                   opened |-> traceBeforeSha, read |-> traces,
                   returned |-> after]

\* tool_result when every command succeeds.
tool_result(command, isError) ==
  tool_result_on(command, isError, NoFault) /\ UNCHANGED pure

\* ------------------------------------------------------------------------
\* The environment: edits and commits
\* ------------------------------------------------------------------------

Lines(ls) == [present |-> TRUE, lines |-> ls, exec |-> FALSE]

\* The successive states a file of the working tree takes: an edit moves a
\* file to a later state of its history.
History(f) ==
  IF f = "foo.ts"
    THEN <<Absent, Lines(<<"a">>), Lines(<<"a", "b">>), Lines(<<"b">>)>>
    ELSE <<Absent, Lines(<<"a">>)>>

Version(f, fs) == CHOOSE k \in DOMAIN History(f) : History(f)[k] = fs

\* The agent (inside a loop) or the user (outside) writes, creates or
\* deletes a file.
Edit(f, fs) ==
  /\ fs # worktree[f]
  /\ worktree' = [worktree EXCEPT ![f] = fs]
  /\ fin' = FinNone
  /\ last' = Did("edit")
  /\ UNCHANGED <<store, head, notes, traceRefs, refs, traceLog, extVars, pure, parked>>

\* `git add <paths> && git commit`: the head commit takes the working-tree
\* state of the paths; the other paths stay as they are in the working tree.
GitCommit(paths) ==
  /\ paths # {}
  /\ \A f \in paths : worktree[f] # store[head].tree[f]
  /\ store' = Append(store,
                 CommitObject([f \in Files |-> IF f \in paths THEN worktree[f]
                                                ELSE store[head].tree[f]], head))
  /\ head' = NewSha
  /\ fin' = FinNone
  /\ last' = Did("commit")
  /\ UNCHANGED <<worktree, notes, traceRefs, refs, traceLog, extVars, pure, parked>>

\* ------------------------------------------------------------------------
\* SpecCommit: the trace lifecycle of one session
\* ------------------------------------------------------------------------

\* Most objects (snapshots and commits) in the store of SpecCommit.
MaxStore == 7

InitCommit ==
  /\ pure = Idle
  /\ Constructed
  /\ worktree = NoTree
  /\ store = <<CommitObject(NoTree, NoSha)>>
  /\ head = 1
  /\ notes = {} /\ traceRefs = {} /\ refs = {}
  /\ traceLog = <<>>

\* The events of SpecCommit: one session; a loop starts when none is open,
\* and tool results arrive inside a loop.
SessionStarts == sessionId = Null /\ session_start("S1")

LoopStarts == traceBeforeSha = NoSha /\ Len(store) < MaxStore /\ turn_start(0)

FileEdited ==
  \E f \in Files : \E k \in DOMAIN History(f) :
    /\ sessionId # Null
    /\ k > Version(f, worktree[f])
    /\ Edit(f, History(f)[k])

CommitMade == \E paths \in SUBSET Files : Len(store) < MaxStore /\ GitCommit(paths)

CommitReported ==
  traceBeforeSha # NoSha /\ Len(store) < MaxStore /\ tool_result(<<"git", "commit">>, FALSE)

LoopEnds == Len(store) < MaxStore /\ agent_end

NextCommit ==
  SessionStarts \/ LoopStarts \/ FileEdited \/ CommitMade \/ CommitReported \/ LoopEnds

SpecCommit == InitCommit /\ [][NextCommit]_vars

\* ------------------------------------------------------------------------
\* Handlers of the checkpoint manager
\* ------------------------------------------------------------------------

turnEndRuns_AnyIndex(turnIndex) == pendingCheckpoint # NoPending

\* The guards of turn_end: a pending snapshot and turn index 0.
turnEndRuns(turnIndex) == pendingCheckpoint # NoPending /\ turnIndex = 0

\* turn_end; userEntry is the entry id findUserMessageEntry returns, Null
\* when it finds none.  outcome is how `git update-ref` of the checkpoint
\* goes: "ok"; "throws" (the catch skips the rest); "nonzero" (pi.exec
\* resolves with a non-zero exit code, which is never read: no ref is
\* written and the handler goes on).
turn_end_on(turnIndex, userEntry, outcome) ==
  /\ sessionId # Null
  /\ IF ~turnEndRuns(turnIndex)
       THEN UNCHANGED <<refs, checkpoints, pendingCheckpoint>>
       ELSE /\ IF userEntry = Null \/ outcome = "throws"
                 THEN UNCHANGED <<refs, checkpoints>>
                 ELSE LET checkpointId == RefName("checkpoint", sessionId,
                                                  pendingCheckpoint.timestamp, userEntry)
                          created == IF outcome = "nonzero" THEN refs
                                     ELSE UpdateRef(refs, checkpointId,
                                                    pendingCheckpoint.commitSha)
                          pruned == pruneCheckpoints(created,
                                      [checkpoints EXCEPT ![userEntry] = checkpointId],
                                      sessionId)
                      IN /\ refs' = pruned.refs
                         /\ checkpoints' = pruned.checkpoints
            /\ pendingCheckpoint' = NoPending
  /\ fin' = FinNone
  /\ last' = [Did("turn_end") EXCEPT !.turnIndex = turnIndex,
                                     !.failed = (/\ turnEndRuns(turnIndex)
                                                 /\ userEntry # Null
                                                 /\ outcome # "ok")]
  /\ UNCHANGED <<worktree, store, head, notes, traceRefs, traceLog, sessionId,
                 resumeCheckpoint, traceBeforeSha, parked>>

\* turn_end when `git update-ref` succeeds.
turn_end(turnIndex, userEntry) ==
  turn_end_on(turnIndex, userEntry, "ok") /\ UNCHANGED pure

\* How one invocation of restoreWithBackup goes: every command succeeds, or
\* one of them throws or (for pi.exec, whose exit code is never read)
\* returns a non-zero code.
RestoreOutcomes ==
  {"ok", "find-throws", "capture-throws", "backup-throws", "backup-nonzero",
   "delete-throws", "delete-nonzero", "checkout-throws", "checkout-nonzero"}

\* `git checkout <commit> -- .`: every path of the commit's tree is written
\* to the working tree; paths the tree does not have are left alone.
Checkout(wt, tree) == [f \in Files |-> IF tree[f].present THEN tree[f] ELSE wt[f]]

\* restoreWithBackup on refs rs, store st and working tree wt; target is the
\* commit the target ref resolves to (NoSha when it does not resolve).
restoreWithBackup(rs, st, wt, target, currentSessionId, outcome) ==
  LET existingBackup == IF outcome = "find-throws" THEN {}
                        ELSE findBeforeRestoreRef(rs, currentSessionId)
      backupCommit == Len(st) + 1
      st1 == Append(st, CommitObject(wt, NoSha))
      newBackupId == RefName("before-restore", currentSessionId, backupCommit, Null)
      rs1 == IF outcome = "backup-nonzero" THEN rs
             ELSE UpdateRef(rs, newBackupId, backupCommit)
      rs2 == IF outcome = "delete-nonzero" THEN rs1
             ELSE rs1 \ existingBackup
      wt1 == IF outcome = "checkout-nonzero" \/ target = NoSha THEN wt
             ELSE Checkout(wt, st1[target].tree)
  IN IF outcome = "capture-throws"
       THEN [refs |-> rs, store |-> st, worktree |-> wt, success |-> FALSE]
     ELSE IF outcome = "backup-throws"
       THEN [refs |-> rs, store |-> st1, worktree |-> wt, success |-> FALSE]
     ELSE IF outcome = "delete-throws" /\ existingBackup # {}
       THEN [refs |-> rs1, store |-> st1, worktree |-> wt, success |-> FALSE]
     ELSE IF outcome = "checkout-throws"
       THEN [refs |-> rs2, store |-> st1, worktree |-> wt, success |-> FALSE]
     ELSE [refs |-> rs2, store |-> st1, worktree |-> wt1, success |-> TRUE]

\* The commit a checkpoint name resolves to.
ResolveRef(rs, name) ==
  IF \E r \in rs : r.name = name THEN (CHOOSE r \in rs : r.name = name).sha ELSE NoSha

\* checkpoints.get(entry), else the resume checkpoint.
CheckpointFor(entry) ==
  IF checkpoints[entry] # NoRef THEN checkpoints[entry] ELSE resumeCheckpoint

\* A command of this invocation of restoreWithBackup threw or exited
\* non-zero (the deletion runs only when there is an earlier backup).
StepFailed(rs, currentSessionId, outcome) ==
  \/ outcome \in {"capture-throws", "backup-throws", "backup-nonzero",
                  "checkout-throws", "checkout-nonzero"}
  \/ /\ outcome \in {"delete-throws", "delete-nonzero"}
     /\ findBeforeRestoreRef(rs, currentSessionId) # {}

\* A restore or undo choice, shared by the two handlers: restoreWithBackup
\* on the commit of targetName, then the handler's notification and result
\* (onSuccess is what a successful restore returns; undo always cancels).
Restores(event, choice, targetName, target, outcome, onSuccess) ==
  LET r == restoreWithBackup(refs, store, worktree, target, sessionId, outcome)
  IN /\ refs' = r.refs
     /\ store' = r.store
     /\ worktree' = r.worktree
     /\ last' = [event |-> event, choice |-> choice, turnIndex |-> 0,
                 result |-> IF choice = "undo" \/ ~r.success THEN "cancel" ELSE onSuccess,
                 called |-> TRUE, success |-> r.success,
                 failed |-> StepFailed(refs, sessionId, outcome),
                 restored |-> r.success, target |-> targetName,
                 backup |-> IF outcome = "capture-throws" THEN NoSha ELSE Len(store) + 1,
                 wt |-> worktree]

Declines_TakesBackup(event, choice, result) ==
  /\ last' = [Did(event) EXCEPT !.choice = choice, !.result = result]
  /\ store' = Captured
  /\ refs' = UpdateRef(refs, RefName("before-restore", sessionId, NewSha, Null), NewSha)
  /\ UNCHANGED worktree

\* A choice that restores nothing: the handler returns result.
Declines(event, choice, result) ==
  /\ last' = [Did(event) EXCEPT !.choice = choice, !.result = result]
  /\ UNCHANGED <<refs, store, worktree>>

\* session_before_fork for entry id entryId; choice is the answer of the
\* restore-options prompt ("none": the prompt was dismissed).
session_before_fork(entryId, choice, outcome) ==
  /\ sessionId # Null
  /\ LET checkpointId == CheckpointFor(entryId)
         beforeRestoreRef == findBeforeRestoreRef(refs, sessionId)
         options == {"none", "conversation"}
                    \cup (IF checkpointId # NoRef THEN {"restore-all", "code-only"} ELSE {})
                    \cup (IF beforeRestoreRef # {} THEN {"undo"} ELSE {})
         backup == CHOOSE r \in beforeRestoreRef : TRUE
     IN /\ choice \in options
        /\ IF choice = "none"
             THEN Declines("session_before_fork", choice, "cancel")
           ELSE IF choice = "conversation"
             THEN Declines("session_before_fork", choice, "undefined")
           ELSE IF choice = "undo"
             THEN Restores("session_before_fork", choice, backup.name, backup.sha,
                           outcome, "cancel")
           ELSE Restores("session_before_fork", choice, checkpointId,
                         ResolveRef(refs, checkpointId), outcome,
                         IF choice = "code-only" THEN "skipConversationRestore"
                                                 ELSE "undefined")
  /\ fin' = FinNone
  /\ UNCHANGED <<head, notes, traceRefs, traceLog, extVars, pure, parked>>

\* session_before_tree for target id targetId.
session_before_tree(targetId, choice, outcome) ==
  /\ sessionId # Null
  /\ LET checkpointId == CheckpointFor(targetId)
         beforeRestoreRef == findBeforeRestoreRef(refs, sessionId)
         options == {"none", "keep", "cancel"}
                    \cup (IF checkpointId # NoRef THEN {"restore"} ELSE {})
                    \cup (IF beforeRestoreRef # {} THEN {"undo"} ELSE {})
         backup == CHOOSE r \in beforeRestoreRef : TRUE
     IN /\ choice \in options
        /\ IF choice \in {"none", "cancel"}
             THEN Declines("session_before_tree", choice, "cancel")
           ELSE IF choice = "keep"
             THEN Declines("session_before_tree", choice, "undefined")
           ELSE IF choice = "undo"
             THEN Restores("session_before_tree", choice, backup.name, backup.sha,
                           outcome, "cancel")
           ELSE Restores("session_before_tree", choice, checkpointId,
                         ResolveRef(refs, checkpointId), outcome, "undefined")
  /\ fin' = FinNone
  /\ UNCHANGED <<head, notes, traceRefs, traceLog, extVars, pure, parked>>

\* ------------------------------------------------------------------------
\* Spec: the checkpoint manager of one repository
\* ------------------------------------------------------------------------

\* Regular checkpoints session S1 left in the repository before the run.
InitRefs == 99
\* Most snapshots taken during a run of Spec.
MaxCaptures == 3

\* The entry id of the i-th earlier checkpoint: the oldest belongs to e2.
EntryOf(i) == IF i = 1 THEN "e2" ELSE "e1"

\* The repository of a resumed session: the head commit, then one snapshot
\* and one regular checkpoint ref per earlier turn.
Init ==
  /\ pure = Idle
  /\ Constructed
  /\ worktree = NoTree
  /\ store = [i \in 1..(InitRefs + 1) |-> CommitObject(NoTree, NoSha)]
  /\ head = 1
  /\ refs = {[name |-> RefName("checkpoint", "S1", i + 1, EntryOf(i)), sha |-> i + 1]
               : i \in 1..InitRefs}
  /\ notes = {} /\ traceRefs = {}
  /\ traceLog = <<>>

CanCapture == Len(store) < InitRefs + 1 + MaxCaptures

\* The events of Spec.
SessionOpens == \E s \in Sessions : CanCapture /\ session_start(s)

TurnStarts == \E i \in {0, 1} : pendingCheckpoint = NoPending /\ CanCapture /\ turn_start(i)

TurnEnds == \E i \in {0, 1}, e \in Entries \cup {Null} : turn_end(i, e)

FileChanges ==
  \E f \in {"foo.ts"} : \E k \in DOMAIN History(f) :
    /\ sessionId # Null
    /\ k > Version(f, worktree[f])
    /\ Edit(f, History(f)[k])

Next ==
  SessionOpens \/ TurnStarts \/ TurnEnds \/ FileChanges

Spec == Init /\ [][Next]_vars

\* ------------------------------------------------------------------------
\* SpecRestore: restore and undo in a repository with an earlier checkpoint
\* ------------------------------------------------------------------------

\* Most objects in the store of SpecRestore.
MaxRestoreStore == 5

\* The tree of the checkpoint an earlier run of session S1 left behind.
CheckpointTree == [NoTree EXCEPT !["foo.ts"] = Lines(<<"a">>)]

\* The repository when the host starts: the head commit, the snapshot and
\* the ref of the earlier checkpoint; the file has been deleted since.
InitRestore ==
  /\ pure = Idle
  /\ Constructed
  /\ worktree = NoTree
  /\ store = <<CommitObject(NoTree, NoSha), CommitObject(CheckpointTree, NoSha)>>
  /\ head = 1
  /\ refs = {[name |-> RefName("checkpoint", "S1", 2, "e1"), sha |-> 2]}
  /\ notes = {} /\ traceRefs = {}
  /\ traceLog = <<>>

CanSnapshot == Len(store) < MaxRestoreStore

\* The events of SpecRestore.
SessionResumes == \E s \in Sessions : sessionId = Null /\ session_start(s)

TurnBegins == pendingCheckpoint = NoPending /\ CanSnapshot /\ turn_start(0)

TurnCompletes == \E e \in Entries : pendingCheckpoint # NoPending /\ turn_end(0, e)

AgentEnds == CanSnapshot /\ agent_end

\* The user or the agent writes or deletes foo.ts.
FileRewritten ==
  \E k \in 1..3 : sessionId # Null /\ Edit("foo.ts", History("foo.ts")[k])

Forks ==
  \E e \in Entries, choice \in {"none", "conversation", "restore-all", "code-only", "undo"},
     outcome \in RestoreOutcomes :
    /\ CanSnapshot
    /\ choice \in {"none", "conversation"} => outcome = "ok"
    /\ choice \in {"none", "conversation", "undo"} => e = "e1"
    /\ session_before_fork(e, choice, outcome)

TreeNavigates ==
  \E e \in Entries, choice \in {"none", "keep", "cancel", "restore", "undo"},
     outcome \in RestoreOutcomes :
    /\ CanSnapshot
    /\ choice \in {"none", "keep", "cancel"} => outcome = "ok"
    /\ choice \in {"none", "keep", "cancel", "undo"} => e = "e1"
    /\ session_before_tree(e, choice, outcome)

NextRestore ==
  \/ SessionResumes \/ TurnBegins \/ TurnCompletes \/ AgentEnds
  \/ FileRewritten \/ Forks \/ TreeNavigates

SpecRestore == InitRestore /\ [][NextRestore]_vars

\* ------------------------------------------------------------------------
\* SpecTwo: two sessions, each in its own extension instance, in one
\* repository; the events of the two interleave at handler boundaries
\* ------------------------------------------------------------------------

\* Most snapshots taken during a run of SpecTwo.
MaxTwoCaptures == 4

\* Snapshots in the store before the run: the head commit, four refs of
\* session S2 and of earlier versions, the checkpoints of S1, a legacy ref.
InitTwoStore == MAX_CHECKPOINTS + 6

\* The repository: session S1 is at its cap of regular checkpoints; older
\* than all of them are a checkpoint, a before-restore ref and a resume
\* checkpoint of session S2 and a legacy checkpoint; the newest ref is a
\* legacy checkpoint for entry e2.
InitTwo ==
  /\ pure = Idle
  /\ Constructed
  /\ worktree = NoTree
  /\ store = [i \in 1..InitTwoStore |->
               CommitObject(IF i = 2 THEN CheckpointTree ELSE NoTree, NoSha)]
  /\ head = 1
  /\ refs = {[name |-> RefName("checkpoint", "S2", 2, "e1"), sha |-> 2],
             [name |-> RefName("legacy", Null, 3, "e1"), sha |-> 3],
             [name |-> RefName("before-restore", "S2", 4, Null), sha |-> 4],
             [name |-> RefName("resume", "S2", 5, Null), sha |-> 5],
             [name |-> RefName("legacy", Null, InitTwoStore, "e2"), sha |-> InitTwoStore]}
            \cup {[name |-> RefName("checkpoint", "S1", i + 5, EntryOf(i)), sha |-> i + 5]
                    : i \in 1..MAX_CHECKPOINTS}
  /\ notes = {} /\ traceRefs = {}
  /\ traceLog = <<>>

CanCaptureTwo == Len(store) < InitTwoStore + MaxTwoCaptures

\* The closure state of the instance whose handler runs.
Instance ==
  [sessionId |-> sessionId, checkpoints |-> checkpoints,
   resumeCheckpoint |-> resumeCheckpoint, pendingCheckpoint |-> pendingCheckpoint,
   traceBeforeSha |-> traceBeforeSha]

\* The next event goes to the other instance.
OtherInstanceRuns ==
  /\ parked' = Instance
  /\ sessionId' = parked.sessionId
  /\ checkpoints' = parked.checkpoints
  /\ resumeCheckpoint' = parked.resumeCheckpoint
  /\ pendingCheckpoint' = parked.pendingCheckpoint
  /\ traceBeforeSha' = parked.traceBeforeSha
  /\ fin' = FinNone
  /\ last' = LastNone
  /\ UNCHANGED <<repoVars, pure>>

\* The events of SpecTwo.
InstanceBoots ==
  \E s \in Sessions :
    sessionId = Null /\ s # parked.sessionId /\ CanCaptureTwo /\ session_start(s)

InstanceTurnStarts == pendingCheckpoint = NoPending /\ CanCaptureTwo /\ turn_start(0)

InstanceTurnEnds == \E e \in Entries : pendingCheckpoint # NoPending /\ turn_end(0, e)

InstanceRestores ==
  \E e \in Entries, choice \in {"restore-all", "undo"} :
    /\ CanCaptureTwo
    /\ choice = "undo" => e = "e1"
    /\ session_before_fork(e, choice, "ok")

NextTwo ==
  \/ OtherInstanceRuns \/ InstanceBoots \/ InstanceTurnStarts \/ InstanceTurnEnds
  \/ InstanceRestores

SpecTwo == InitTwo /\ [][NextTwo]_vars

\* ------------------------------------------------------------------------
\* SpecLog: the trace log as a file (.pi-trace/traces.jsonl)
\* ------------------------------------------------------------------------

\* Most appendTrace / removeTraces calls applied to one log.
MaxLogOps == 2
\* Most lines not written by appendTrace / removeTraces in an initial log.
MaxForeignLines == 2

\* A line of the file.  "record" is the JSON text of a trace record with
\* the given id; "null" is text that JSON.parse accepts and that is not a
\* record (the JSON value null); "garbage" is text that JSON.parse rejects
\* whatever follows it on the line; "blank" is whitespace only.
LineKinds == {"record", "null", "garbage", "blank"}
Line(kind, id) == [kind |-> kind, id |-> id]

\* A value JSON.parse returns from a line: a trace record or null.
Parsed(isNull, id) == [isNull |-> isNull, id |-> id]
TraceValue(id) == Parsed(FALSE, id)

\* JSON.parse(line) succeeds / its result.  Leading whitespace is accepted,
\* so a blank line never reaches it (it is skipped before).
Parses(line) == line.kind \in {"record", "null"}
JSONparse(line) == Parsed(line.kind = "null", IF line.kind = "null" THEN 0 ELSE line.id)

\* JSON.stringify(r)
JSONstringify(r) == IF r.isNull THEN Line("null", 0) ELSE Line("record", r.id)

\* The file is [lines, eol]: its lines, and whether its last line ends with
\* "\n".  The missing file and the empty file read the same and are both
\* [lines |-> <<>>, eol |-> TRUE].

\* readTraces: trim, split on "\n", skip blank lines, JSON.parse each line,
\* skip (and report) the lines JSON.parse rejects.
readTraces(file) ==
  LET kept == SelectSeq(file.lines, LAMBDA l : l.kind # "blank" /\ Parses(l))
  IN [i \in DOMAIN kept |-> JSONparse(kept[i])]

\* writeFileSync(file, records.map(JSON.stringify).join("\n") + "\n"), and
\* writeFileSync(file, "") for no records.
writeFileSync(records) ==
  [lines |-> [i \in DOMAIN records |-> JSONstringify(records[i])], eol |-> TRUE]

\* What `text + JSON.stringify(record)` is as one line: after whitespace it
\* is the record; after anything else JSON.parse rejects it.
Joined(line, recordLine) ==
  IF line.kind = "blank" THEN recordLine ELSE Line("garbage", 0)

\* appendFileSync(file, JSON.stringify(record) + "\n"): the bytes go after
\* the last byte of the file, on the last line when that line has no "\n".
appendFileSync(file, record) ==
  LET n == Len(file.lines)
  IN IF file.eol
       THEN [lines |-> Append(file.lines, JSONstringify(record)), eol |-> TRUE]
       ELSE [lines |-> Append(SubSeq(file.lines, 1, n - 1),
                              Joined(file.lines[n], JSONstringify(record))),
             eol |-> TRUE]

\* appendTrace on the file.
appendTraceFile(file, record) ==
  LET records == readTraces(file)
  IN IF Len(records) >= MAX_TRACES
       THEN writeFileSync(toKeep(records, record))
       ELSE appendFileSync(file, record)

\* removeTraces on the file.  `r.id` of a null record is a TypeError: the
\* filter throws before anything is written.
removeTracesThrows(file) ==
  \E i \in DOMAIN readTraces(file) : readTraces(file)[i].isNull

removeTracesFile(file, idsToRemove) ==
  IF removeTracesThrows(file) THEN file
  ELSE writeFileSync(SelectSeq(readTraces(file), LAMBDA r : r.id \notin idsToRemove))

\* Records 1..n, one per line, as appendTrace leaves them.
WrittenLines(n) == [i \in 1..n |-> Line("record", i)]

\* The lines a foreign writer (an editor, an interrupted write) may have
\* left after the records of the log: up to MaxForeignLines lines of any
\* kind; Renumbered gives the record lines among them the ids after k.
ForeignTails ==
  UNION {[1..m -> {Line(kind, 0) : kind \in LineKinds}] : m \in 1..MaxForeignLines}

Renumbered(tail, k) ==
  [i \in DOMAIN tail |->
     IF tail[i].kind = "record" THEN Line("record", k + i) ELSE tail[i]]

\* The largest record id of a file, 0 if none.
MaxId(lines) ==
  LET ids == {0} \cup {lines[i].id : i \in DOMAIN lines}
  IN CHOOSE m \in ids : \A x \in ids : x <= m

LogState(file, origin) ==
  [fn |-> "log", file |-> file, origin |-> origin, op |-> "none",
   before |-> file, record |-> TraceValue(0), ids |-> {}, threw |-> FALSE,
   n |-> 0, nextId |-> MaxId(file.lines) + 1]

\* The log is missing, or holds what earlier calls wrote (up to the cap), or
\* was also written by someone else: more records than the cap, lines that
\* are not records, a last line without its newline.
InitLog ==
  /\ Constructed
  /\ worktree = NoTree /\ store = <<CommitObject(NoTree, NoSha)>> /\ head = 1
  /\ notes = {} /\ traceRefs = {} /\ refs = {} /\ traceLog = <<>>
  /\ \/ \E n \in {0, MAX_TRACES - 2, MAX_TRACES} :
          pure = LogState([lines |-> WrittenLines(n), eol |-> TRUE], "program")
     \/ pure = LogState([lines |-> WrittenLines(MAX_TRACES + 1), eol |-> TRUE], "foreign")
     \/ \E k \in {0, 1, MAX_TRACES - 1}, eol \in BOOLEAN :
          \E tail \in ForeignTails :
            /\ eol \/ tail[Len(tail)].kind # "blank"
            /\ pure = LogState([lines |-> WrittenLines(k) \o Renumbered(tail, k),
                                eol |-> eol], "foreign")

\* appendTrace(repoRoot, record) with a record of a fresh id.
TraceAppended ==
  /\ pure.fn = "log" /\ pure.n < MaxLogOps
  /\ LET record == TraceValue(pure.nextId)
     IN pure' = [pure EXCEPT
                   !.file = appendTraceFile(pure.file, record),
                   !.op = "append", !.before = pure.file, !.record = record,
                   !.ids = {}, !.threw = FALSE,
                   !.n = pure.n + 1, !.nextId = pure.nextId + 1]
  /\ UNCHANGED <<repoVars, extVars, fin, last, parked>>

\* removeTraces(repoRoot, idsToRemove): no id, the oldest record's id, the
\* newest record's id, or every id.
TracesRemoved ==
  /\ pure.fn = "log" /\ pure.n < MaxLogOps
  /\ LET records == readTraces(pure.file)
         all == {records[i].id : i \in DOMAIN records}
         ends == IF records = <<>> THEN {{}}
                 ELSE {{records[1].id}, {records[Len(records)].id}}
     IN \E ids \in {{}, all} \cup ends :
          pure' = [pure EXCEPT
                     !.file = removeTracesFile(pure.file, ids),
                     !.op = "remove", !.before = pure.file,
                     !.record = TraceValue(0), !.ids = ids,
                     !.threw = removeTracesThrows(pure.file),
                     !.n = pure.n + 1]
  /\ UNCHANGED <<repoVars, extVars, fin, last, parked>>

NextLog == TraceAppended \/ TracesRemoved

SpecLog == InitLog /\ [][NextLog]_vars

\* ------------------------------------------------------------------------
\* SpecTrace, SpecTool: finalization, tool results and the protection refs
\* ------------------------------------------------------------------------

\* Most objects (snapshots and commits) a behaviour of SpecTrace adds to the
\* store.
MaxTraceSteps == 5
\* The same for SpecTool.
MaxToolSteps == 3

\* What the harness remembers: how many objects the store began with and
\* how many a behaviour may add.
Budget(objects, steps) == [fn |-> "trace", objects |-> objects, steps |-> steps]

CanRecord == Len(store) < pure.objects + pure.steps

\* A new extension instance on a repository with one empty commit.
InitTrace ==
  /\ Constructed
  /\ worktree = NoTree
  /\ store = <<CommitObject(NoTree, NoSha)>>
  /\ head = 1 /\ notes = {} /\ refs = {}
  /\ traceLog = <<>> /\ traceRefs = {}
  /\ pure = Budget(1, MaxTraceSteps)

\* The events of SpecTrace: one session, started and restarted; loops;
\* edits; commits; tool results of `git commit`, inside a loop or in a loop
\* whose turn_start took no snapshot.
SessionBegins == sessionId = Null /\ CanRecord /\ session_start("S1")

SessionRestarts ==
  /\ sessionId # Null /\ traceBeforeSha = NoSha /\ traceLog # <<>>
  /\ CanRecord /\ session_start("S1")

LoopBegins == traceBeforeSha = NoSha /\ CanRecord /\ turn_start(0)

Committed == \E paths \in SUBSET Files : CanRecord /\ GitCommit(paths)

CommitObserved == CanRecord /\ tool_result(<<"git", "commit">>, FALSE)

LoopFinishes == CanRecord /\ agent_end

NextTrace ==
  \/ SessionBegins \/ SessionRestarts \/ LoopBegins \/ FileEdited \/ Committed
  \/ CommitObserved \/ LoopFinishes

SpecTrace == InitTrace /\ [][NextTrace]_vars

\* The commands of the tool calls the host reports.
Commands ==
  {<<"git", "commit">>, <<"git", "commit", "--amend">>,
   <<"git", "commit", "--dry-run">>, <<"git", "commit-tree">>,
   <<"git", "commit-graph">>, <<"git", "status">>}

\* A repository in which MAX_TRACES loops have each rewritten bar.ts and
\* nothing was committed: loop i found bar.ts in state BarAt(i) and left it
\* in state BarAt(i + 1); its snapshots are objects 2i and 2i + 1.
BarAt(i) == IF i % 2 = 1 THEN Lines(<<"a">>) ELSE Absent

FullStore ==
  [k \in 1..(2 * MAX_TRACES + 1) |->
     IF k = 1 THEN CommitObject(NoTree, NoSha)
     ELSE CommitObject([NoTree EXCEPT !["bar.ts"] = BarAt((k + 1) \div 2)], NoSha)]

FullLog ==
  [i \in 1..MAX_TRACES |-> NewTraceRecord(<<"bar.ts">>, 2 * i, 2 * i + 1)]

\* A new extension instance on the repository with one empty commit, or on
\* the repository whose log is full.
InitTool ==
  /\ Constructed
  /\ head = 1 /\ notes = {} /\ refs = {}
  /\ \/ /\ worktree = NoTree
        /\ store = <<CommitObject(NoTree, NoSha)>>
        /\ traceLog = <<>> /\ traceRefs = {}
     \/ /\ worktree = FullStore[2 * MAX_TRACES + 1].tree
        /\ store = FullStore
        /\ traceLog = FullLog /\ traceRefs = collectTraceShas(FullLog)
  /\ pure = Budget(Len(store), MaxToolSteps)

\* Any tool result: any command, failed or not.
ToolReported ==
  \E command \in Commands, isError \in BOOLEAN :
    CanRecord /\ tool_result(command, isError)

NextTool ==
  \/ SessionBegins \/ LoopBegins \/ FileEdited \/ Committed \/ ToolReported
  \/ LoopFinishes

SpecTool == InitTool /\ [][NextTool]_vars

\* ------------------------------------------------------------------------
\* Blame (blame.ts, /trace blame)
\* ------------------------------------------------------------------------

\* `git blame --line-porcelain <sha> -- file`: for each line of the file at
\* sha, the commit that introduced the line and the number of the line in
\* that commit, followed line for line through the diff to the parent.
RECURSIVE GitBlame(_, _, _)
GitBlame(st, sha, file) ==
  LET fa == st[sha].tree[file]
      p == st[sha].parent
      here == [k \in 1..Len(fa.lines) |-> [commitSha |-> sha, origLine |-> k]]
  IN IF p = NoSha \/ ~st[p].tree[file].present THEN here
     ELSE IF st[p].tree[file].lines = fa.lines THEN GitBlame(st, p, file)
     ELSE LET hunks == SectionHunks(PatchSection(file, st[p].tree[file], fa).lines,
                                    FALSE, <<>>)
              before == GitBlame(st, p, file)
          IN [k \in 1..Len(fa.lines) |->
                IF OutSrc(hunks, k, 0) = 0 THEN here[k]
                ELSE before[OutSrc(hunks, k, 0)]]

\* getNote: the parsed note of a commit, or nothing (null) when `git notes
\* show` fails or JSON.parse throws.  A note whose text does not parse is
\* the record [text |-> ...].
getNote(ns, sha) == {n \in NoteOf(ns, sha) : "text" \notin DOMAIN n}

\* One blame result: attribution is "human", "unresolved", "untraced",
\* "pre-session", or "trace" for the attribution object, whose traceId,
\* timestamp and commitSha (NoSha when it has none) follow.
BlameResult(lineNumber, attribution) ==
  [lineNumber |-> lineNumber, attribution |-> attribution,
   traceId |-> Null, timestamp |-> 0, commitSha |-> NoSha]

labelEntry_NeverUnresolved(ns, entry) ==
  LET found == getNote(ns, entry.commitSha)
  IN IF found = {} THEN BlameResult(entry.finalLine, "human")
     ELSE BlameResult(entry.finalLine, "untraced")

\* The body of the loop of blameCommitted over the blame entries: the label
\* of one entry, by the first test that applies.
labelEntry(ns, entry) ==
  LET found == getNote(ns, entry.commitSha)
      note == CHOOSE m \in found : TRUE
      fileRanges == MapGet(note.resolved, entry.filename)
      hits == {r \in DOMAIN fileRanges :
                 /\ entry.origLine >= fileRanges[r].start
                 /\ entry.origLine <= fileRanges[r].end}
      matchingRange == fileRanges[CHOOSE r \in hits : \A q \in hits : r <= q]
      ids == {t \in DOMAIN note.traces : note.traces[t].id = matchingRange.trace_id}
      trace == note.traces[CHOOSE t \in ids : \A q \in ids : t <= q]
  IN IF found = {} THEN BlameResult(entry.finalLine, "human")
     ELSE IF "resolved" \notin DOMAIN note
       THEN BlameResult(entry.finalLine, "unresolved")
     ELSE IF ~HasKey(note.resolved, entry.filename)
       THEN BlameResult(entry.finalLine, "untraced")
     ELSE IF hits = {} THEN BlameResult(entry.finalLine, "untraced")
     ELSE IF ids = {} THEN BlameResult(entry.finalLine, "untraced")
     ELSE [BlameResult(entry.finalLine, "trace") EXCEPT
             !.traceId = trace.id, !.timestamp = trace.timestamp,
             !.commitSha = entry.commitSha]

\* blameCommitted: `git blame --line-porcelain [-L s,e] HEAD -- file` (no
\* result when git fails: the file is not in HEAD, or the range starts
\* after its last line; git cuts a range that ends after it), then one
\* label per entry.  range is <<>> or <<startLine, endLine>>.
blameCommitted(st, h, ns, filePath, range) ==
  LET fs == st[h].tree[filePath]
      n == Len(fs.lines)
      first == IF range = <<>> THEN 1 ELSE range[1]
      lastLine == IF range = <<>> \/ range[2] > n THEN n ELSE range[2]
      blamed == GitBlame(st, h, filePath)
  IN IF ~fs.present \/ first > n THEN <<>>
     ELSE [i \in 1..(lastLine - first + 1) |->
             labelEntry(ns, [commitSha |-> blamed[first + i - 1].commitSha,
                             origLine |-> blamed[first + i - 1].origLine,
                             finalLine |-> first + i - 1,
                             filename |-> filePath])]

sortByTimestamp_Descending(traces) ==
  LET rank(i) == Cardinality({j \in DOMAIN traces :
                    \/ traces[j].timestamp > traces[i].timestamp
                    \/ traces[j].timestamp = traces[i].timestamp /\ j < i}) + 1
  IN [k \in DOMAIN traces |-> traces[CHOOSE i \in DOMAIN traces : rank(i) = k]]

\* `.sort((a, b) => a.timestamp.localeCompare(b.timestamp))`: ascending by
\* timestamp, records of equal timestamp in their given order.
sortByTimestamp(traces) ==
  LET rank(i) == Cardinality({j \in DOMAIN traces :
                    \/ traces[j].timestamp < traces[i].timestamp
                    \/ traces[j].timestamp = traces[i].timestamp /\ j < i}) + 1
  IN [k \in DOMAIN traces |-> traces[CHOOSE i \in DOMAIN traces : rank(i) = k]]

\* The traces of the log that blameUncommitted composes for a file.
touchingTraces(traces, filePath) ==
  sortByTimestamp(SelectSeq(traces, LAMBDA t : Touches(t, filePath)))

\* blameUncommitted on the log `traces`, the store `st` as captureWorktree
\* left it and the snapshot currentSha it returned; range is <<>> or
\* <<startLine, endLine>>.
blameUncommitted(filePath, traces, st, currentSha, range) ==
  LET touching == touchingTraces(traces, filePath)
      startLine == IF range = <<>> THEN 0 ELSE range[1]
      endLine == IF range = <<>> THEN 0 ELSE range[2]
      attribution == buildAttribution(touching, filePath, st, NoSha)
      lastAfterSha == touching[Len(touching)].after
      finalAttribution ==
        IF lastAfterSha # currentSha
          THEN gapStep(attribution,
                       computeLineDiff(st, lastAfterSha, currentSha, filePath))
          ELSE attribution
      start == IF startLine # 0 THEN startLine - 1 ELSE 0
      end == IF endLine # 0 /\ endLine < Len(finalAttribution)
               THEN endLine ELSE Len(finalAttribution)
      slice == SubSeq(finalAttribution, start + 1, end)
      lineNum(i) == (IF startLine # 0 THEN startLine ELSE 1) + (i - 1)
      found(traceId) == {t \in DOMAIN touching : touching[t].id = traceId}
      trace(traceId) == touching[CHOOSE t \in found(traceId) : \A q \in found(traceId) : t >= q]
  IN IF Len(touching) = 0
       THEN IF startLine # 0 /\ endLine # 0
              THEN [i \in 1..(endLine - startLine + 1) |->
                      BlameResult(startLine + (i - 1), "pre-session")]
              ELSE <<>>
       ELSE [i \in DOMAIN slice |->
               IF slice[i] = Null \/ found(slice[i]) = {}
                 THEN BlameResult(lineNum(i), "pre-session")
                 ELSE [BlameResult(lineNum(i), "trace") EXCEPT
                         !.traceId = trace(slice[i]).id,
                         !.timestamp = trace(slice[i]).timestamp]]

\* Line ranges a blame request may carry: none, or startLine-endLine.
MaxRangeLine == 2

Ranges == {<<>>} \cup {<<s, e>> : s \in 1..MaxRangeLine, e \in 1..MaxRangeLine}

\* handleBlameCommand: `git status --porcelain -- file` decides between the
\* two blames; captureWorktree runs only in blameUncommitted and only when
\* a trace touches the file.
handleBlameCommand(filePath, range) ==
  LET isDirty == worktree[filePath] # store[head].tree[filePath]
      captures == isDirty /\ Len(touchingTraces(traceLog, filePath)) > 0
      results == IF isDirty
                   THEN blameUncommitted(filePath, traceLog,
                                         IF captures THEN Captured ELSE store,
                                         NewSha, range)
                   ELSE blameCommitted(store, head, notes, filePath, range)
  IN /\ range # <<>> => range[1] <= range[2]
     /\ store' = IF captures THEN Captured ELSE store
     /\ fin' = FinNone
     /\ last' = [Did("blame") EXCEPT !.file = filePath, !.range = range,
                                     !.isDirty = isDirty, !.results = results]
     /\ UNCHANGED <<worktree, head, notes, traceRefs, refs, traceLog, extVars,
                    pure, parked>>

\* The standalone CLI (trace-cli.js).  readNote: the parsed note of a
\* commit, or nothing (null) when `git notes show` fails or JSON.parse
\* throws.
readNote(ns, sha) == {n \in NoteOf(ns, sha) : "text" \notin DOMAIN n}

\* The label cmdBlame prints for one blame entry, by its class: "(human)",
\* "(unresolved)", "(untraced)", or "trace" for `<sha>  "<message>"`; the
\* message is that of the trace the matching range names, empty when the
\* note does not hold that trace.
cmdBlameLabel(ns, entry) ==
  LET found == readNote(ns, entry.sha)
      note == CHOOSE m \in found : TRUE
      fileRanges == MapGet(note.resolved, entry.filename)
      hits == {r \in DOMAIN fileRanges :
                 /\ entry.origLine >= fileRanges[r].start
                 /\ entry.origLine <= fileRanges[r].end}
  IN IF found = {} THEN "human"
     ELSE IF "resolved" \notin DOMAIN note THEN "unresolved"
     ELSE IF hits = {} THEN "untraced"
     ELSE "trace"

\* cmdBlame: `git blame --line-porcelain [-L s,e] HEAD -- file` (the
\* process exits when git fails), then the label of each entry; lines that
\* follow each other with one label are printed as one range.
cmdBlame(st, h, ns, filePath, range) ==
  LET fs == st[h].tree[filePath]
      n == Len(fs.lines)
      first == IF range = <<>> THEN 1 ELSE range[1]
      lastLine == IF range = <<>> \/ range[2] > n THEN n ELSE range[2]
      blamed == GitBlame(st, h, filePath)
  IN IF ~fs.present \/ first > n THEN <<>>
     ELSE [i \in 1..(lastLine - first + 1) |->
             BlameResult(first + i - 1,
               cmdBlameLabel(ns, [sha |-> blamed[first + i - 1].commitSha,
                                  origLine |-> blamed[first + i - 1].origLine,
                                  finalLine |-> first + i - 1,
                                  filename |-> filePath]))]

\* ------------------------------------------------------------------------
\* SpecBlame: blame requests during the trace lifecycle
\* ------------------------------------------------------------------------

\* Most snapshots and commits a behaviour of SpecBlame adds to the store.
MaxBlameSteps == 3

\* Notes another writer leaves under refs/notes/pi-trace: text that does
\* not parse, the raw note of the post-commit hook (traces, no resolved
\* map), a resolved map without the file, and a range whose trace the note
\* does not hold.
ForeignNotes ==
  {[text |-> "{"],
   [traces |-> <<>>],
   [traces |-> <<>>, resolved |-> <<>>],
   [traces |-> <<>>,
    resolved |-> << <<"foo.ts", <<[start |-> 1, end |-> 1, trace_id |-> "T0"]>> >> >>]}

\* The store a session left that ran two loops: the resume snapshot, then
\* the before and the after snapshot of each loop.  The first loop created
\* foo.ts and bar.ts, the second added a line to foo.ts and deleted bar.ts.
LeftStore ==
  LET one == [f \in Files |-> Lines(<<"a">>)]
      two == [NoTree EXCEPT !["foo.ts"] = Lines(<<"a", "b">>)]
  IN <<CommitObject(NoTree, NoSha), CommitObject(NoTree, NoSha),
       CommitObject(NoTree, NoSha), CommitObject(one, NoSha),
       CommitObject(one, NoSha), CommitObject(two, NoSha)>>

\* The trace agent_end recorded for the loop between two snapshots.
LeftTrace(beforeSha, afterSha) ==
  NewTraceRecord(GitDiffTreeNumstat(LeftStore[beforeSha].tree,
                                    LeftStore[afterSha].tree),
                 beforeSha, afterSha)

\* A new extension instance on the repository that session left.
InitBlame ==
  /\ Constructed
  /\ head = 1 /\ notes = {}
  /\ store = LeftStore
  /\ worktree = LeftStore[6].tree
  /\ traceLog = <<LeftTrace(3, 4), LeftTrace(5, 6)>>
  /\ traceRefs = {3, 4, 5, 6}
  /\ refs = UpdateRef({}, RefName("resume", "S1", 2, Null), 2)
  /\ pure = Budget(Len(store), MaxBlameSteps)

NoteAttached ==
  \E note \in ForeignNotes :
    /\ head # 1 /\ NoteOf(notes, head) = {}
    /\ notes' = NotesAdd(notes, head, note)
    /\ fin' = FinNone
    /\ last' = Did("note")
    /\ UNCHANGED <<worktree, store, head, traceRefs, refs, traceLog, extVars,
                   pure, parked>>

BlameRequested ==
  \E filePath \in Files, range \in Ranges :
    CanRecord /\ handleBlameCommand(filePath, range)

\* `node trace-cli.js blame <file>` in the repository.
CliBlameRun ==
  \E filePath \in Files :
    /\ last' = [Did("cli-blame") EXCEPT
                  !.file = filePath,
                  !.results = cmdBlame(store, head, notes, filePath, <<>>)]
    /\ fin' = FinNone
    /\ UNCHANGED <<repoVars, extVars, pure, parked>>

NextBlame ==
  \/ SessionBegins \/ LoopBegins \/ FileEdited \/ Committed \/ CommitObserved
  \/ LoopFinishes \/ NoteAttached \/ BlameRequested \/ CliBlameRun

SpecBlame == InitBlame /\ [][NextBlame]_vars

\* ------------------------------------------------------------------------
\* The diff engine with its cache (diff.ts, createDiffEngine)
\* ------------------------------------------------------------------------

\* The entry of a cache under the key `${beforeSha}:${afterSha}`: a set with
\* the parsed map of the pair, empty when the cache has no such key.
CacheGet(cache, beforeSha, afterSha) ==
  {e.parsed : e \in {c \in cache : c.key = <<beforeSha, afterSha>>}}

fetchPairDiffs_NoSet(cache, st, beforeSha, afterSha) ==
  [parsed |-> parseUnifiedDiff(GitDiffTreePatch(st[beforeSha].tree, st[afterSha].tree)),
   cache |-> cache, queried |-> CacheGet(cache, beforeSha, afterSha) = {}]

\* fetchPairDiffs: the cached map of the pair, else one `git diff-tree -r -p
\* -U99999 before after`, parsed and put in the cache.  queried: the store
\* was asked.
fetchPairDiffs(cache, st, beforeSha, afterSha) ==
  LET cached == CacheGet(cache, beforeSha, afterSha)
      parsed == parseUnifiedDiff(GitDiffTreePatch(st[beforeSha].tree, st[afterSha].tree))
  IN IF cached # {}
       THEN [parsed |-> CHOOSE p \in cached : TRUE, cache |-> cache, queried |-> FALSE]
       ELSE [parsed |-> parsed,
             cache |-> cache \cup {[key |-> <<beforeSha, afterSha>>, parsed |-> parsed]},
             queried |-> TRUE]

\* The computeLineDiff that createDiffEngine returns, on a cache: the hunks,
\* the cache it leaves and whether it asked the store.
createDiffEngine(cache, st, beforeSha, afterSha, filePath) ==
  IF beforeSha = afterSha THEN [hunks |-> <<>>, cache |-> cache, queried |-> FALSE]
  ELSE LET pairDiffs == fetchPairDiffs(cache, st, beforeSha, afterSha)
       IN [hunks |-> MapGet(pairDiffs.parsed, filePath),
           cache |-> pairDiffs.cache, queried |-> pairDiffs.queried]

\* ------------------------------------------------------------------------
\* SpecDiff: lookups of one extension instance on a store of snapshots
\* ------------------------------------------------------------------------

\* Most lookups and session starts of a behaviour of SpecDiff.
MaxDiffCalls == 3

\* Three snapshots: no file, foo.ts and bar.ts of one line, foo.ts of two.
DiffStore ==
  <<CommitObject(NoTree, NoSha),
    CommitObject([f \in Files |-> Lines(<<"a">>)], NoSha),
    CommitObject([NoTree EXCEPT !["foo.ts"] = Lines(<<"a", "b">>)], NoSha)>>

\* The harness state: the diffCache of the closure, the pairs the store was
\* asked for since the cache was last emptied, and the last lookup.
DiffState(cache, asked, calls, call) ==
  [fn |-> "diff", cache |-> cache, asked |-> asked, calls |-> calls, call |-> call]

NoCall == [beforeSha |-> NoSha, afterSha |-> NoSha, filePath |-> "",
           hunks |-> <<>>, queried |-> FALSE]

InitDiff ==
  /\ Constructed
  /\ worktree = NoTree
  /\ store = DiffStore
  /\ head = 1 /\ notes = {} /\ refs = {}
  /\ traceLog = <<>> /\ traceRefs = {}
  /\ pure = DiffState({}, <<>>, 0, NoCall)

\* A call of computeLineDiff by a handler of the session.
DiffRequested ==
  \E beforeSha \in DOMAIN store, afterSha \in DOMAIN store, filePath \in Files :
    LET r == createDiffEngine(pure.cache, store, beforeSha, afterSha, filePath)
    IN /\ pure.fn = "diff" /\ pure.calls < MaxDiffCalls
       /\ pure' = DiffState(r.cache,
                    IF r.queried THEN Append(pure.asked, <<beforeSha, afterSha>>)
                    ELSE pure.asked,
                    pure.calls + 1,
                    [beforeSha |-> beforeSha, afterSha |-> afterSha,
                     filePath |-> filePath, hunks |-> r.hunks, queried |-> r.queried])
       /\ last' = Did("diff")
       /\ fin' = FinNone
       /\ UNCHANGED <<repoVars, extVars, parked>>

\* session_start / session_switch: resetState empties the cache.
CacheCleared ==
  /\ pure.fn = "diff" /\ pure.calls < MaxDiffCalls
  /\ pure' = DiffState({}, <<>>, pure.calls + 1, NoCall)
  /\ last' = Did("session_start")
  /\ fin' = FinNone
  /\ UNCHANGED <<repoVars, extVars, parked>>

NextDiff == DiffRequested \/ CacheCleared

SpecDiff == InitDiff /\ [][NextDiff]_vars

\* ------------------------------------------------------------------------
\* captureWorktree step by step (index.ts)
\* ------------------------------------------------------------------------

\* The commands of captureWorktree in their order; one of them may throw.
CaptureSteps == <<"getRepoRoot", "mkdtemp", "add", "write-tree", "commit-tree">>

StepAt(name) == CHOOSE k \in DOMAIN CaptureSteps : CaptureSteps[k] = name

captureWorktree_RemovesOnSuccess(wt, st, index, failAt) ==
  LET failed == IF failAt = "none" THEN Len(CaptureSteps) + 1 ELSE StepAt(failAt)
  IN [store |-> IF failed > StepAt("commit-tree")
                  THEN Append(st, CommitObject(wt, NoSha)) ELSE st,
      index |-> index,
      tmpIndex |-> IF failed > StepAt("add") THEN wt ELSE NoTree,
      tmpDir |-> failed > StepAt("mkdtemp") /\ failAt # "none",
      threw |-> failAt # "none",
      sha |-> IF failAt = "none" THEN Len(st) + 1 ELSE NoSha]

\* captureWorktree on the working tree wt, the store st and the index of the
\* repository, when the step failAt throws ("none": no step does).  `git add
\* -A` and `git write-tree` run with GIT_INDEX_FILE set to the index file
\* in the temporary directory; the finally block removes that directory.
\* tmpDir: the directory exists when the function is left.
captureWorktree(wt, st, index, failAt) ==
  LET failed == IF failAt = "none" THEN Len(CaptureSteps) + 1 ELSE StepAt(failAt)
      created == failed > StepAt("mkdtemp")
      entersTry == created
      removed == entersTry
  IN [store |-> IF failed > StepAt("commit-tree")
                  THEN Append(st, CommitObject(wt, NoSha)) ELSE st,
      index |-> index,
      tmpIndex |-> IF failed > StepAt("add") THEN wt ELSE NoTree,
      tmpDir |-> created /\ ~removed,
      threw |-> failAt # "none",
      sha |-> IF failAt = "none" THEN Len(st) + 1 ELSE NoSha]

\* ------------------------------------------------------------------------
\* SpecCapture: captures of a changing working tree, any step failing
\* ------------------------------------------------------------------------

\* Most captures that add a snapshot in a behaviour of SpecCapture.
MaxCaptureSteps == 3

\* The harness state: the index of the repository (what `git add` staged),
\* and what the last capture left and returned.
CaptureState(index, result, failAt) ==
  [fn |-> "capture", objects |-> 1, steps |-> MaxCaptureSteps,
   index |-> index, result |-> result, failAt |-> failAt]

InitCapture ==
  /\ Constructed
  /\ worktree = NoTree
  /\ store = <<CommitObject(NoTree, NoSha)>>
  /\ head = 1 /\ notes = {} /\ refs = {}
  /\ traceLog = <<>> /\ traceRefs = {}
  /\ pure = CaptureState(NoTree, captureWorktree(NoTree, store, NoTree, "getRepoRoot"),
                         "getRepoRoot")

\* The user writes a file, with or without `git add` of it.
FileWritten ==
  \E f \in Files, staged \in BOOLEAN : \E k \in DOMAIN History(f) :
    /\ k > Version(f, worktree[f])
    /\ worktree' = [worktree EXCEPT ![f] = History(f)[k]]
    /\ pure' = [pure EXCEPT !.index = IF staged THEN [@ EXCEPT ![f] = History(f)[k]]
                                       ELSE @]
    /\ fin' = FinNone
    /\ last' = Did("edit")
    /\ UNCHANGED <<store, head, notes, traceRefs, refs, traceLog, extVars, parked>>

\* A handler calls captureWorktree.
CaptureAttempted ==
  \E failAt \in {"none"} \cup {CaptureSteps[k] : k \in DOMAIN CaptureSteps} :
    LET r == captureWorktree(worktree, store, pure.index, failAt)
    IN /\ CanRecord
       /\ store' = r.store
       /\ pure' = [pure EXCEPT !.index = r.index, !.result = r, !.failAt = failAt]
       /\ fin' = FinNone
       /\ last' = Did("capture")
       /\ UNCHANGED <<worktree, head, notes, traceRefs, refs, traceLog, extVars, parked>>

NextCapture == FileWritten \/ CaptureAttempted

SpecCapture == InitCapture /\ [][NextCapture]_vars

\* ------------------------------------------------------------------------
\* SpecFault: sessions, agent loops and commands that throw
\* ------------------------------------------------------------------------

\* Most snapshots and commits a behaviour of SpecFault adds to the store.
MaxFaultSteps == 5
\* Most handler runs of a behaviour of SpecFault in which a command fails.
MaxFaults == 1

\* What the harness of SpecFault holds besides the program's state.
\* exists: the directory is a git work tree (before `git init` the
\* repository variables stand for the repository `git init` and a first
\* empty commit create); isGitRepo: the closure variable of that name, what
\* the last initializeForSession found; loop: the host is inside an agent
\* loop; since: the size of the store when that loop began; faults: the
\* handler runs so far in which a command failed.
FaultState(exists, isGitRepo, loop, since) ==
  [fn |-> "fault", objects |-> 1, steps |-> MaxFaultSteps, exists |-> exists,
   isGitRepo |-> isGitRepo, loop |-> loop, since |-> since, faults |-> 0]

\* The harness state after a handler ran with the given fault.
Counted(state, fault) ==
  IF fault \in {NoFault, "ok"} THEN state
  ELSE [state EXCEPT !.faults = @ + 1]

CanFail(fault) == fault \in {NoFault, "ok"} \/ pure.faults < MaxFaults

\* The guard `if (!isGitRepo) return;` at the head of turn_start,
\* turn_end, agent_end, tool_result and the /trace command.
WhenGitRepo_Always(isGitRepo, handler, event) == handler

WhenGitRepo(isGitRepo, handler, event) ==
  IF isGitRepo
    THEN handler
    ELSE /\ last' = Did(event)
         /\ UNCHANGED <<repoVars, extVars, fin, parked>>

\* The steps of handleCommitDetected and of agent_end that may throw.
ToolFaults == {NoFault, "capture", "diff", "note", "status", "cleanup"}

AgentFaults == {NoFault, "capture", "diff", "update-ref"}

\* A new extension instance in a directory that is a work tree with one
\* empty commit, or is none yet.
InitFault ==
  /\ Constructed
  /\ worktree = NoTree
  /\ store = <<CommitObject(NoTree, NoSha)>>
  /\ head = 1 /\ notes = {} /\ refs = {}
  /\ traceLog = <<>> /\ traceRefs = {}
  /\ \E exists \in BOOLEAN : pure = FaultState(exists, FALSE, FALSE, 0)

\* `git init` and a first empty commit in the directory.
RepoCreated ==
  /\ ~pure.exists
  /\ pure' = [pure EXCEPT !.exists = TRUE]
  /\ last' = Did("init")
  /\ UNCHANGED <<repoVars, extVars, fin, parked>>

\* session_start of session S1, then a session_switch to S2, also in the
\* middle of a loop.
SessionInitialized ==
  \E s \in Sessions :
    /\ CanRecord
    /\ IF sessionId = Null THEN s = "S1" ELSE sessionId = "S1" /\ s = "S2"
    /\ initializeForSession(s, pure.exists)
    /\ pure' = [pure EXCEPT !.isGitRepo = pure.exists]

\* The host begins a loop: turn_start with index 0, whose capture may throw.
LoopOpens ==
  \E fault \in {NoFault, "capture"} :
    /\ ~pure.loop /\ CanRecord /\ CanFail(fault)
    /\ WhenGitRepo(pure.isGitRepo, turn_start_on(0, fault), "turn_start")
    /\ pure' = Counted([pure EXCEPT !.loop = TRUE, !.since = Len(store)], fault)

\* The first turn of the loop ends; the update-ref of its checkpoint may
\* fail.
TurnCloses ==
  \E outcome \in {"ok", "throws", "nonzero"} :
    /\ pure.loop /\ CanFail(outcome)
    /\ WhenGitRepo(pure.isGitRepo, turn_end_on(0, "e1", outcome), "turn_end")
    /\ pure' = Counted(pure, outcome)

\* The agent writes bar.ts.
AgentEdits ==
  \E k \in DOMAIN History("bar.ts") :
    /\ pure.loop
    /\ k > Version("bar.ts", worktree["bar.ts"])
    /\ Edit("bar.ts", History("bar.ts")[k])

CommitMadeInRepo == pure.exists /\ pure.loop /\ Committed

\* The tool result of a `git commit` inside the loop; a step of the
\* finalization may throw.
CommitFinalized ==
  \E fault \in ToolFaults :
    /\ pure.loop /\ CanRecord /\ CanFail(fault)
    /\ WhenGitRepo(pure.isGitRepo,
                   tool_result_on(<<"git", "commit">>, FALSE, fault), "tool_result")
    /\ pure' = Counted(pure, fault)

\* The host ends the loop: agent_end, a step of which may throw.
LoopCloses ==
  \E fault \in AgentFaults :
    /\ pure.loop /\ CanRecord /\ CanFail(fault)
    /\ WhenGitRepo(pure.isGitRepo, agent_end_on(fault), "agent_end")
    /\ pure' = Counted([pure EXCEPT !.loop = FALSE], fault)

\* `/trace blame bar.ts` between two loops.
BlameAsked ==
  /\ sessionId # Null /\ ~pure.loop /\ CanRecord
  /\ last.event # "blame"
  /\ WhenGitRepo(pure.isGitRepo, handleBlameCommand("bar.ts", <<>>), "blame")
  /\ UNCHANGED pure

NextFault ==
  \/ RepoCreated \/ SessionInitialized \/ LoopOpens \/ TurnCloses
  \/ AgentEdits \/ CommitMadeInRepo \/ CommitFinalized \/ LoopCloses \/ BlameAsked

SpecFault == InitFault /\ [][NextFault]_vars

\* ------------------------------------------------------------------------
\* Claims on the attribution engine (SpecAttr)
\* ------------------------------------------------------------------------

\* C1: applyDiffToAttribution(A, H, t) returns a vector whose length is the
\* number of lines in the equal and add hunks of H, whatever the length of
\* A; an equal line whose source position lies beyond the end of A is null.
C1_ApplyLength ==
  pure.fn = "apply" =>
    /\ Len(pure.result) = LinesOfTypes(pure.hunks, {"equal", "add"})
    /\ \A k \in 1..Len(pure.result) :
         OutSrc(pure.hunks, k, 0) > Len(pure.attribution) => pure.result[k] = Null

\* C1 witness: a non-empty vector projected under a trace id through an
\* add hunk and an equal hunk that runs beyond the end of the vector.
C1_Witness ==
  /\ pure.fn = "apply"
  /\ Len(pure.attribution) > 0
  /\ pure.traceId # Null
  /\ LinesOfTypes(pure.hunks, {"add"}) > 0
  /\ \E k \in 1..Len(pure.result) :
       OutSrc(pure.hunks, k, 0) > Len(pure.attribution)

\* C2 (as claimed): the vector buildAttribution returns has as many entries
\* as the file has lines in the terminal snapshot.
C2_LengthIsTerminalLineCount ==
  (pure.fn = "build" /\ pure.pc = "done") =>
    Len(pure.attribution) = Len(pure.cur.lines)

\* C3: in the returned vector a line carries trace id T only if the diff of
\* T inserted it and every later diff kept it; lines inserted by a gap or
\* terminal diff, and lines older than the first trace, are null.
C3_OnlyInsertedLinesCarryIds ==
  (pure.fn = "build" /\ pure.pc \in {"next", "done"}) =>
    \A k \in 1..Len(pure.attribution) :
      /\ k <= Len(pure.origin)
      /\ pure.attribution[k] # Null => pure.origin[k] = pure.attribution[k]
      /\ pure.origin[k] \in {"gap", "pre"} => pure.attribution[k] = Null

\* C3 witness: a returned vector holding a line of the first trace, a line
\* nulled by a gap or terminal diff, after two traces.
C3_Witness ==
  /\ pure.fn = "build" /\ pure.pc = "done" /\ pure.n = 2
  /\ \E k \in 1..Len(pure.attribution) : pure.attribution[k] = "T1"
  /\ \E k \in 1..Len(pure.attribution) :
       k <= Len(pure.origin) /\ pure.origin[k] = "gap"

\* C4 (as claimed): a gap, trace or terminal step over a snapshot pair with
\* before == after leaves the vector unchanged.
C4_SameSnapshotIsNoOp ==
  (pure.fn = "build" /\ pure.step.same) => pure.step.kept

\* C5: the ranges resolved from a vector are 1-based inclusive, ascending
\* and disjoint, each a maximal run of one non-null id; together they cover
\* exactly the non-null positions; a file without a non-null entry gets no
\* key in the resolved map.
C5_RangesAreMaximalRuns ==
  pure.fn = "resolve" =>
    LET A == pure.attribution
        R == pure.ranges
    IN /\ \A k \in 1..Len(R) :
            /\ 1 <= R[k].start /\ R[k].start <= R[k].end /\ R[k].end <= Len(A)
            /\ R[k].trace_id # Null
            /\ \A i \in R[k].start..R[k].end : A[i] = R[k].trace_id
            /\ R[k].start > 1 => A[R[k].start - 1] # R[k].trace_id
            /\ R[k].end < Len(A) => A[R[k].end + 1] # R[k].trace_id
       /\ \A k \in 1..(Len(R) - 1) : R[k].end < R[k + 1].start
       /\ \A i \in 1..Len(A) :
            A[i] # Null <=> \E k \in 1..Len(R) : R[k].start <= i /\ i <= R[k].end
       /\ IF \A i \in 1..Len(A) : A[i] = Null
            THEN pure.resolved = <<>>
            ELSE pure.resolved = << <<AttrFile, R>> >>

\* C5 witness: a vector with two adjacent runs of different ids and a null.
C5_Witness ==
  /\ pure.fn = "resolve"
  /\ Len(pure.ranges) = 2
  /\ pure.ranges[1].end + 1 = pure.ranges[2].start
  /\ \E i \in 1..Len(pure.attribution) : pure.attribution[i] = Null

\* ------------------------------------------------------------------------
\* Claims on the commit finalizer (SpecCommit)
\* ------------------------------------------------------------------------

\* C6: in every note handleCommitDetected writes, the ids of note.traces
\* are exactly the trace ids named by the ranges of note.resolved.
C6_NoteTracesAreTheContributors ==
  fin.wrote =>
    {fin.note.traces[i].id : i \in DOMAIN fin.note.traces}
      = UNION {{fin.note.resolved[i][2][k].trace_id : k \in DOMAIN fin.note.resolved[i][2]}
                 : i \in DOMAIN fin.note.resolved}

\* C6 witness: a note with a contributing trace, written while another
\* trace that touches a committed file contributes no line.
C6_Witness ==
  /\ fin.wrote
  /\ fin.note.traces # <<>>
  /\ \E i \in DOMAIN fin.matching :
       \A j \in DOMAIN fin.note.traces : fin.note.traces[j].id # fin.matching[i].id

\* C7: in every note handleCommitDetected writes, every key of
\* note.resolved and every file of a note trace is a file of the head
\* commit, and the ranges on a trace's file are exactly the ranges of
\* note.resolved for that file that carry the trace's id.
C7_NoteIsProjectedOnCommit ==
  fin.wrote =>
    LET committed == CommittedFiles(store, fin.head)
        note == fin.note
        RangesOf(path) == IF HasKey(note.resolved, path)
                            THEN MapGet(note.resolved, path) ELSE <<>>
    IN /\ \A i \in DOMAIN note.resolved : InSeq(committed, note.resolved[i][1])
       /\ \A i \in DOMAIN note.traces : \A k \in DOMAIN note.traces[i].files :
            LET file == note.traces[i].files[k]
                own == {j \in DOMAIN RangesOf(file.path) :
                          RangesOf(file.path)[j].trace_id = note.traces[i].id}
            IN /\ InSeq(committed, file.path)
               /\ Len(file.ranges) = Cardinality(own)
               /\ {<<file.ranges[j].start_line, file.ranges[j].end_line>>
                              : j \in DOMAIN file.ranges}
                        = {<<RangesOf(file.path)[j].start, RangesOf(file.path)[j].end>>
                              : j \in own}

\* C7 witness: a note trace with a range on a committed file whose log
\* record also listed a file the head commit does not contain.
C7_Witness ==
  /\ fin.wrote
  /\ \E i \in DOMAIN fin.note.traces : \E m \in DOMAIN fin.matching :
       /\ fin.matching[m].id = fin.note.traces[i].id
       /\ Len(fin.note.traces[i].files) < Len(fin.matching[m].files)
       /\ \E k \in DOMAIN fin.note.traces[i].files :
            fin.note.traces[i].files[k].ranges # <<>>

\* C8 (as claimed): finalization run again for the same head commit, with
\* no agent or user change in between, leaves the note of the commit as the
\* first run wrote it.
C8_SecondRunKeepsNote ==
  fin.rerun => fin.same

\* ------------------------------------------------------------------------
\* Claims on the checkpoint manager (Spec)
\* ------------------------------------------------------------------------

C15_TurnEndFrame ==
  /\ [][(last'.event = "turn_start" /\ last'.turnIndex = 0)
        => /\ Len(store') = Len(store) + 1
           /\ store'[Len(store')].tree = worktree
           /\ pendingCheckpoint'.commitSha = Len(store')]_vars
  /\ [][last'.event = "turn_end"
        => IF pendingCheckpoint = NoPending \/ last'.turnIndex # 0
             THEN UNCHANGED <<refs, checkpoints, pendingCheckpoint, traceBeforeSha>>
             ELSE /\ Cardinality(refs' \ refs) <= 1
                  /\ \A r \in refs' \ refs : r.sha = pendingCheckpoint.commitSha
                  /\ pendingCheckpoint' = NoPending
                  /\ traceBeforeSha' = traceBeforeSha]_vars

\* C15 witness: a turn_end with index 0 ran, the pending snapshot is
\* cleared, and a checkpoint ref of the session points at the snapshot the
\* last turn_start took.
C15_Witness ==
  /\ last.event = "turn_end"
  /\ last.turnIndex = 0
  /\ pendingCheckpoint = NoPending
  /\ traceBeforeSha # NoSha
  /\ \E r \in refs : /\ r.name.kind = "checkpoint"
                      /\ r.name.session = sessionId
                      /\ r.sha = traceBeforeSha

\* C16: after a turn_end that prunes, an entry id maps to nothing exactly
\* when the name it mapped to (the new checkpoint's name for the entry of
\* this turn) is the name of a deleted ref; every other entry keeps its
\* name.
C16_PruneClearsOnlyMappedEntry ==
  [][(last'.event = "turn_end" /\ refs' # refs)
     => LET created == refs' \ refs
            deleted == refs \ refs'
            mid(e) == IF \E c \in created : c.name.entry = e
                        THEN (CHOOSE c \in created : c.name.entry = e).name
                        ELSE checkpoints[e]
        IN \A e \in Entries :
             checkpoints'[e] = IF \E d \in deleted : d.name = mid(e) THEN NoRef
                               ELSE mid(e)]_vars

\* C16 witness: the oldest checkpoint, which entry e2 mapped to, was pruned
\* and e2 maps to nothing, while e1 maps to a checkpoint that exists.
C16_Witness ==
  /\ sessionId = "S1"
  /\ last.event = "turn_end"
  /\ checkpoints["e2"] = NoRef
  /\ ~\E r \in refs : r.sha = 2
  /\ \E r \in refs : r.name = checkpoints["e1"]

\* ------------------------------------------------------------------------
\* Claims on restore and undo (SpecRestore)
\* ------------------------------------------------------------------------

\* C10 (as claimed): at every handler boundary a session has at most one
\* before-restore ref, also after a restore or undo in which a step failed.
C10_OneBeforeRestoreRef ==
  \A s \in Sessions :
    Cardinality({r \in refs : r.name.kind = "before-restore" /\ r.name.session = s}) <= 1


\* C11 (as claimed): an undo that follows a restore made from working tree
\* W brings the working tree back to W and leaves the session's
\* before-restore ref on the post-restore tree; an undo that follows an
\* undo brings back the tree the first undo started from.
C11_UndoRoundTrip ==
  [][(/\ last.called /\ last.success /\ ~last.failed
      /\ last'.called /\ last'.success /\ ~last'.failed
      /\ last'.choice = "undo")
     => /\ worktree' = last.wt
        /\ \E r \in findBeforeRestoreRef(refs', sessionId) :
              store'[r.sha].tree = worktree]_vars

\* C12 (as claimed): a step of the extension changes the working tree only
\* when restoreWithBackup ran and had captured the tree it found and created
\* a before-restore ref of the session pointing at that capture.
C12_CheckoutOnlyAfterBackup ==
  [][(worktree' # worktree /\ last'.event # "edit")
     => /\ last'.called
        /\ last'.backup # NoSha
        /\ store'[last'.backup].tree = worktree
        /\ \E r \in refs' : /\ r.name.kind = "before-restore"
                             /\ r.name.session = sessionId
                             /\ r.sha = last'.backup]_vars

\* C13 (as claimed): when a command of restoreWithBackup threw or exited
\* non-zero, restoreWithBackup returned false, and the handler returned a
\* cancel result and showed no success notification.
C13_FailureIsSurfaced ==
  (last.called /\ last.failed)
    => (~last.success /\ last.result = "cancel" /\ ~last.restored)

\* C14: a session_before_fork or session_before_tree whose prompt was
\* dismissed or answered 'Cancel navigation' returns a cancel result and
\* leaves the working tree, the refs, the trace log and the notes as they
\* were.
C14_CancelChangesNothing ==
  [][(/\ last'.event \in {"session_before_fork", "session_before_tree"}
      /\ last'.choice \in {"none", "cancel"})
     => /\ last'.result = "cancel"
        /\ UNCHANGED <<worktree, refs, store, traceLog, notes, traceRefs>>]_vars

\* C14 witness: 'Cancel navigation' was chosen in a session that has a
\* checkpoint to restore and a before-restore ref to undo to, with a working
\* tree that differs from the checkpoint.
C14_Witness ==
  /\ last.event = "session_before_tree"
  /\ last.choice = "cancel"
  /\ last.result = "cancel"
  /\ checkpoints["e1"] # NoRef
  /\ findBeforeRestoreRef(refs, sessionId) # {}
  /\ worktree # store[ResolveRef(refs, checkpoints["e1"])].tree


\* ------------------------------------------------------------------------
\* Claims on two sessions in one repository (SpecTwo)
\* ------------------------------------------------------------------------

C18_SessionsDoNotInterfere ==
  [][/\ \A r \in refs : r.name.session # sessionId' => r \in refs'
     /\ last'.called
          => \A s \in Sessions \ {sessionId'} : last'.target.session # s]_vars

\* C18 witness: both instances have started; this one has pruned its oldest
\* checkpoint and has just restored, and the refs of the other session
\* (checkpoint, resume checkpoint, before-restore) are still there.
C18_Witness ==
  /\ sessionId = "S1"
  /\ parked.sessionId = "S2"
  /\ last.called /\ last.success
  /\ ~\E r \in refs : r.sha = 6
  /\ \E r \in refs : r.name.kind = "checkpoint" /\ r.name.session = "S2" /\ r.sha = 2
  /\ \E r \in refs : r.name.kind = "before-restore" /\ r.name.session = "S2"
  /\ \E r \in refs : r.name.kind = "before-restore" /\ r.name.session = "S1"

\* ------------------------------------------------------------------------
\* Claims on the trace log file (SpecLog)
\* ------------------------------------------------------------------------

\* The file is what appendTrace and removeTraces write: one record per
\* line, every line ended by a newline.
WellFormedFile(file) ==
  file.eol /\ \A i \in DOMAIN file.lines : file.lines[i].kind = "record"

\* The records of the file's record lines, in file order.
WellFormedRecords(file) ==
  LET kept == SelectSeq(file.lines, LAMBDA l : l.kind = "record")
  IN [i \in DOMAIN kept |-> TraceValue(kept[i].id)]

\* C19: a log written only by appendTrace and removeTraces never holds more
\* than MAX_TRACES (100) records; an append to a log of n >= 100 records
\* leaves exactly 100 records, the newest 99 previous records in their
\* order followed by the new record; an append to a log of n < 100 records
\* leaves the n records unchanged followed by the new record.
C19_AppendKeepsNewestUnderCap ==
  /\ [](pure.origin = "program" => Len(readTraces(pure.file)) <= MAX_TRACES)
  /\ [][(pure'.op = "append" /\ WellFormedFile(pure.file))
        => LET old == readTraces(pure.file)
               new == readTraces(pure'.file)
               n == Len(old)
           IN IF n >= MAX_TRACES
                THEN /\ Len(new) = MAX_TRACES
                     /\ \A i \in 1..(MAX_TRACES - 1) :
                          new[i] = old[n - MAX_TRACES + 1 + i]
                     /\ new[MAX_TRACES] = pure'.record
                ELSE new = Append(old, pure'.record)]_vars

\* An append has just discarded the oldest record of a full log that only
\* appendTrace and removeTraces wrote.
C19_Witness ==
  /\ pure.origin = "program" /\ pure.op = "append"
  /\ Len(readTraces(pure.before)) = MAX_TRACES
  /\ Len(readTraces(pure.file)) = MAX_TRACES
  /\ readTraces(pure.file)[1] = readTraces(pure.before)[2]
  /\ readTraces(pure.file)[MAX_TRACES] = pure.record

\* The records of `old` that a call may not lose: all but those removed by
\* id, and all but those beyond the newest MAX_TRACES - 1 when the append
\* finds the log full.
MustSurvive(old, op, ids) ==
  IF op = "remove" THEN SelectSeq(old, LAMBDA r : r.id \notin ids)
  ELSE IF Len(old) >= MAX_TRACES
    THEN SubSeq(old, Len(old) - MAX_TRACES + 2, Len(old))
    ELSE old

\* The file holds a line that is not a trace record (and is not blank).
HasMalformedLine(file) ==
  \E i \in DOMAIN file.lines : file.lines[i].kind \in {"null", "garbage"}

\* C20: readTraces on a log with malformed lines returns exactly the
\* well-formed records in file order; an appendTrace or removeTraces that
\* follows drops or reorders no well-formed record other than those removed
\* by id or by the cap.
C20_MalformedLinesCostNothing ==
  /\ [](HasMalformedLine(pure.file)
        => readTraces(pure.file) = WellFormedRecords(pure.file))
  /\ [][(HasMalformedLine(pure.file) /\ pure'.op \in {"append", "remove"})
        => LET old == WellFormedRecords(pure.file)
               new == WellFormedRecords(pure'.file)
               kept == MustSurvive(old, pure'.op, pure'.ids)
           IN /\ Len(new) >= Len(kept)
              /\ SubSeq(new, 1, Len(kept)) = kept]_vars

\* ------------------------------------------------------------------------
\* Claims on tool results and finalization (SpecTrace)
\* ------------------------------------------------------------------------

C23_CleanTracesCollected ==
  fin.ran =>
    LET dirty == {f \in Files : worktree[f] # store[head].tree[f]}
    IN /\ \A i \in DOMAIN traceLog :
            \E k \in DOMAIN traceLog[i].files : traceLog[i].files[k].path \in dirty
       /\ \A i \in DOMAIN fin.read :
            (\E k \in DOMAIN fin.read[i].files : fin.read[i].files[k].path \in dirty)
              => InSeq(traceLog, fin.read[i])

\* C24: when handleCommitDetected runs with trace_before open and the
\* working tree differs from trace_before, the log it reads for resolution
\* is the previous log followed by the synthetic trace (trace_before ->
\* mid-loop snapshot), which is among the traces matched against the commit
\* when it touches a committed file; when the tree does not differ, the log
\* it reads is the previous log.
C24_SyntheticTraceReadForNote ==
  [][fin'.ran =>
       LET n == Len(traceLog)
           m == Len(fin'.read)
       IN IF traceBeforeSha # NoSha /\ worktree # store[traceBeforeSha].tree
            THEN /\ m >= 1 /\ m - 1 <= n
                 /\ SubSeq(fin'.read, 1, m - 1) = SubSeq(traceLog, n - m + 2, n)
                 /\ fin'.read[m].before = traceBeforeSha
                 /\ fin'.read[m].after = fin'.returned
                 /\ fin'.returned > Len(store)
                 /\ (fin'.wrote /\ \E f \in Files :
                        Touches(fin'.read[m], f) /\ InSeq(fin'.committed, f))
                      => InSeq(fin'.matching, fin'.read[m])
            ELSE fin'.read = traceLog]_vars

\* A finalization found trace_before open and the tree changed, and wrote a
\* note for which the synthetic trace was matched.
C24_Witness ==
  /\ fin.ran /\ fin.wrote /\ fin.opened # NoSha
  /\ worktree # store[fin.opened].tree
  /\ \E i \in DOMAIN fin.matching :
       fin.matching[i].before = fin.opened /\ fin.matching[i].after = fin.returned

\* C25: handleCommitDetected returns the mid-loop snapshot it captured when
\* a trace_before was open on entry, on every return path, and null when
\* none was open; the tool_result handler stores that value, nothing but a
\* handler of the extension changes it, and the record agent_end appends has
\* the stored value as its before snapshot.
C25_TraceBeforeFollowsFinalization ==
  /\ [][fin'.ran =>
          /\ traceBeforeSha' = fin'.returned
          /\ IF traceBeforeSha # NoSha
               THEN /\ fin'.returned = Len(store) + 1
                    /\ Len(store') = Len(store) + 1
                    /\ store'[fin'.returned].tree = worktree
               ELSE fin'.returned = NoSha /\ store' = store]_vars
  /\ [][last'.event \in {"edit", "commit"} => traceBeforeSha' = traceBeforeSha]_vars
  /\ [][(last'.event = "agent_end" /\ traceLog' # traceLog)
          => traceLog'[Len(traceLog')].before = traceBeforeSha]_vars

\* An agent_end has recorded a trace that begins at the mid-loop snapshot
\* where the synthetic trace of a finalization on an early return path ends.
C25_Witness ==
  /\ last.event = "agent_end" /\ Len(traceLog) >= 2 /\ notes = {}
  /\ traceLog[Len(traceLog)].before = traceLog[Len(traceLog) - 1].after

\* ------------------------------------------------------------------------
\* Claims on finalization with any log (SpecTool)
\* ------------------------------------------------------------------------

\* C22: after every invocation of handleCommitDetected that returns, there
\* is no protection ref for a snapshot that no record of the log references.
C22_NoOrphanRefAfterFinalization ==
  fin.ran => traceRefs \subseteq collectTraceShas(traceLog)

\* C26: handleCommitDetected runs only for a tool result that is not an
\* error and whose command matches `git commit` and contains none of
\* `git commit-tree`, `git commit-graph`, --dry-run, --amend; on a tool
\* result of `git commit --amend` it does not run, and notes, trace log,
\* protection refs, snapshots and trace_before stay as they are.
C26_FinalizerOnlyForPlainCommit ==
  [][last'.event = "tool_result" =>
       /\ fin'.ran =>
            /\ ~last'.isError
            /\ GitThen(last'.command, CommitWords)
            /\ ~GitThen(last'.command, {"commit-tree", "commit-graph"})
            /\ ~HasWord(last'.command, "--dry-run")
            /\ ~HasWord(last'.command, "--amend")
       /\ HasWord(last'.command, "--amend") =>
            /\ ~fin'.ran
            /\ UNCHANGED <<notes, traceLog, traceRefs, store, traceBeforeSha>>]_vars

\* A successful `git commit --amend` was reported inside a loop that has
\* changed the tree, with records in the log, and the finalizer did not run.
C26_Witness ==
  /\ last.event = "tool_result" /\ ~last.isError
  /\ last.command = <<"git", "commit", "--amend">>
  /\ ~fin.ran /\ traceLog # <<>>
  /\ traceBeforeSha # NoSha /\ worktree # store[traceBeforeSha].tree

\* ------------------------------------------------------------------------
\* Claims on blame (SpecBlame)
\* ------------------------------------------------------------------------

\* C27: blameCommitted gives exactly one result per blamed line (the lines
\* of the file in HEAD that the request covers, in order), and the label of
\* a line follows the first rule that applies to the commit git blame names
\* for it: no note or a note that does not parse -> human; no resolved map
\* -> unresolved; the map lacks the file -> untraced; no range of the file
\* covers the original line number -> untraced; the first covering range
\* names a trace the note does not hold -> untraced; otherwise the id of
\* that trace with the commit.
C27_CommittedBlameLabels ==
  (last.event = "blame" /\ ~last.isDirty) =>
    LET fs == store[head].tree[last.file]
        n == Len(fs.lines)
        first == IF last.range = <<>> THEN 1 ELSE last.range[1]
        lastLine == IF last.range = <<>> \/ last.range[2] > n THEN n
                    ELSE last.range[2]
        blamedLines == IF fs.present THEN first..lastLine ELSE {}
        blamed == GitBlame(store, head, last.file)
    IN /\ Len(last.results) = Cardinality(blamedLines)
       /\ \A i \in DOMAIN last.results :
            LET r == last.results[i]
                b == blamed[first + i - 1]
                parsed == {m \in NoteOf(notes, b.commitSha) : "traces" \in DOMAIN m}
                note == CHOOSE m \in parsed : TRUE
                fileRanges == MapGet(note.resolved, last.file)
                covering == {k \in DOMAIN fileRanges :
                               b.origLine \in fileRanges[k].start..fileRanges[k].end}
                id == fileRanges[CHOOSE k \in covering :
                                   \A q \in covering : k <= q].trace_id
            IN /\ r.lineNumber = first + i - 1
               /\ IF parsed = {} THEN r.attribution = "human"
                  ELSE IF "resolved" \notin DOMAIN note
                    THEN r.attribution = "unresolved"
                  ELSE IF ~HasKey(note.resolved, last.file) \/ covering = {}
                    THEN r.attribution = "untraced"
                  ELSE IF \A t \in DOMAIN note.traces : note.traces[t].id # id
                    THEN r.attribution = "untraced"
                  ELSE /\ r.attribution = "trace"
                       /\ r.traceId = id
                       /\ r.commitSha = b.commitSha

\* A committed blame of two lines that two different traces wrote.
C27_Witness ==
  /\ last.event = "blame" /\ ~last.isDirty
  /\ Len(last.results) = 2
  /\ last.results[1].attribution = "trace"
  /\ last.results[2].attribution = "trace"
  /\ last.results[1].traceId # last.results[2].traceId
  /\ last.results[1].commitSha = head

\* C28: when no trace touches the file and no commit that git blame names
\* for a line of the file in HEAD carries a note, blame of the clean file
\* gives human for every line of the file in HEAD that the request covers,
\* and blame of the dirty file gives pre-session for every line of the
\* working-tree file that the request covers, with a line range and
\* without.
C28_NoTraceNoNoteBlame ==
  ( /\ last.event = "blame"
    /\ \A i \in DOMAIN traceLog : ~Touches(traceLog[i], last.file)
    /\ LET blamed == GitBlame(store, head, last.file)
       IN \A k \in DOMAIN blamed : NoteOf(notes, blamed[k].commitSha) = {} ) =>
    LET fs == IF last.isDirty THEN worktree[last.file]
              ELSE store[head].tree[last.file]
        n == Len(fs.lines)
        first == IF last.range = <<>> THEN 1 ELSE last.range[1]
        lastLine == IF last.range = <<>> \/ last.range[2] > n THEN n
                    ELSE last.range[2]
        label == IF last.isDirty THEN "pre-session" ELSE "human"
    IN /\ \A i \in DOMAIN last.results : last.results[i].attribution = label
       /\ \A k \in first..lastLine :
            \E i \in DOMAIN last.results : last.results[i].lineNumber = k

\* C29: blameUncommitted of a file that traces touch composes those traces
\* in ascending order of timestamp and then the terminal gap (tag null) from
\* the last trace's after snapshot to the snapshot it has just taken; result
\* i (from 1) of the slice has line number startLine + i - 1 (i without a
\* range), is pre-session when its entry is null, and otherwise carries the
\* id and the timestamp of the trace of the log with that id, and no commit.
C29_UncommittedBlameComposition ==
  ( /\ last.event = "blame" /\ last.isDirty
    /\ \E i \in DOMAIN traceLog : Touches(traceLog[i], last.file) ) =>
    LET touching == SelectSeq(traceLog, LAMBDA t : Touches(t, last.file))
        n == Len(touching)
        order == CHOOSE q \in [1..n -> 1..n] :
                   /\ \A i, j \in 1..n : i # j => q[i] # q[j]
                   /\ \A i, j \in 1..n :
                        i < j => touching[q[i]].timestamp <= touching[q[j]].timestamp
        ascending == [k \in 1..n |-> touching[order[k]]]
        currentSha == Len(store)
        composed == buildAttribution(ascending, last.file, store, NoSha)
        final == IF ascending[n].after # currentSha
                   THEN gapStep(composed,
                          computeLineDiff(store, ascending[n].after, currentSha,
                                          last.file))
                   ELSE composed
        first == IF last.range = <<>> THEN 1 ELSE last.range[1]
        lastLine == IF last.range = <<>> \/ last.range[2] > Len(final)
                      THEN Len(final) ELSE last.range[2]
    IN /\ store[currentSha] = CommitObject(worktree, NoSha)
       /\ Len(final) = Len(worktree[last.file].lines)
       /\ Len(last.results) = Max(lastLine - first + 1, 0)
       /\ \A i \in DOMAIN last.results :
            LET r == last.results[i]
                entry == final[first + i - 1]
            IN /\ r.lineNumber = first + i - 1
               /\ r.commitSha = NoSha
               /\ IF entry = Null THEN r.attribution = "pre-session"
                  ELSE /\ r.attribution = "trace"
                       /\ r.traceId = entry
                       /\ \E t \in DOMAIN traceLog :
                            /\ traceLog[t].id = entry
                            /\ traceLog[t].timestamp = r.timestamp

\* An uncommitted blame of the second line of a file whose two lines two
\* traces wrote, one after the other.
C29_Witness ==
  /\ last.event = "blame" /\ last.isDirty /\ last.range = <<2, 2>>
  /\ Len(traceLog) = 2 /\ traceLog[1].timestamp < traceLog[2].timestamp
  /\ \A i \in DOMAIN traceLog : Touches(traceLog[i], last.file)
  /\ Len(last.results) = 1
  /\ last.results[1].lineNumber = 2
  /\ last.results[1].traceId = traceLog[2].id

\* ------------------------------------------------------------------------
\* Claims on the order of the log (SpecTool)
\* ------------------------------------------------------------------------

\* C30: the records of the trace log are in ascending order of timestamp in
\* every state (appending, trimming at the cap and removing keep it so), and
\* so are the log a finalization read and the traces it composed, which it
\* took from that log without reordering: the order of composition is the
\* order a sort by timestamp gives.
C30_LogInTimestampOrder ==
  LET Ascending(traces) ==
        \A i, j \in DOMAIN traces :
          i < j => traces[i].timestamp <= traces[j].timestamp
  IN /\ Ascending(traceLog)
     /\ fin.ran => /\ Ascending(fin.read)
                   /\ Ascending(fin.matching)
                   /\ fin.matching =
                        SelectSeq(fin.read, LAMBDA t : InSeq(fin.matching, t))

\* A finalization that composed every trace of a log at the cap, in the
\* order of the log, and removed records from it.
C30_Witness ==
  /\ fin.wrote
  /\ Len(fin.read) = MAX_TRACES
  /\ fin.matching = fin.read
  /\ fin.read[1].timestamp < fin.read[MAX_TRACES].timestamp
  /\ Len(traceLog) < Len(fin.read)

\* ------------------------------------------------------------------------
\* Claims on the diff cache (SpecDiff)
\* ------------------------------------------------------------------------

\* C31: between two session starts the store is asked at most once for a
\* pair of different snapshots; a lookup of a pair that was asked for before
\* does not ask again and gives the hunks a diff of the two trees gives;
\* a lookup with before = after gives no hunks, asks nothing and leaves the
\* cache as it is; a session start leaves the cache empty.
C31_OneQueryPerPair ==
  /\ [](\A i, j \in DOMAIN pure.asked : i # j => pure.asked[i] # pure.asked[j])
  /\ [][ /\ last'.event = "diff" =>
             LET c == pure'.call
                 pair == <<c.beforeSha, c.afterSha>>
             IN /\ c.hunks = lineDiff(c.beforeSha, c.afterSha,
                                      store[c.beforeSha].tree, store[c.afterSha].tree,
                                      c.filePath)
                /\ InSeq(pure.asked, pair) => ~c.queried /\ pure'.cache = pure.cache
                /\ c.queried <=> (c.beforeSha # c.afterSha /\ ~InSeq(pure.asked, pair))
                /\ c.beforeSha = c.afterSha =>
                     c.hunks = <<>> /\ ~c.queried /\ pure'.cache = pure.cache
         /\ last'.event = "session_start" => pure'.cache = {} ]_vars

\* A second lookup of a pair, for the other file, served from the cache.
C31_Witness ==
  /\ last.event = "diff" /\ ~pure.call.queried
  /\ pure.call.beforeSha # pure.call.afterSha
  /\ pure.call.hunks # <<>>
  /\ Len(pure.asked) = 1 /\ pure.calls = 2

\* ------------------------------------------------------------------------
\* Claims on captureWorktree (SpecCapture)
\* ------------------------------------------------------------------------

\* C32: a call of captureWorktree, whether it returns or one of its steps
\* throws, leaves HEAD, the index of the repository, the working tree and
\* every ref as they were, and the temporary directory it made does not
\* exist when the call is left; a call that returns added the snapshot of
\* the working tree to the store and nothing else.
C32_CaptureDisturbsNothing ==
  /\ [](last.event = "capture" => ~pure.result.tmpDir)
  /\ [][last'.event = "capture" =>
         /\ head' = head /\ worktree' = worktree
         /\ refs' = refs /\ traceRefs' = traceRefs
         /\ pure'.index = pure.index
         /\ IF pure'.result.threw THEN store' = store
            ELSE /\ store' = Append(store, CommitObject(worktree, NoSha))
                 /\ pure'.result.sha = Len(store')]_vars

\* A capture that failed at `git write-tree`, after the temporary directory
\* and the temporary index were made, with a file staged and another not.
C32_Witness ==
  /\ last.event = "capture" /\ pure.failAt = "write-tree"
  /\ pure.result.threw /\ pure.result.tmpIndex = worktree
  /\ pure.index # worktree /\ pure.index # NoTree

\* ------------------------------------------------------------------------
\* C33 (SpecFault).  In a session whose initialization found that the
\* directory is not a git repository, every later turn_start, turn_end,
\* agent_end, tool_result and /trace event creates no ref (checkpoint or
\* protection ref), no trace record and no note and leaves the pending
\* checkpoint and trace_before null; the initialization itself creates no
\* resume checkpoint.  This also holds when the directory becomes a
\* repository during the session.
C33_NoRepoSessionIsInert ==
  /\ [](sessionId # Null /\ ~pure.isGitRepo =>
          /\ pendingCheckpoint = NoPending
          /\ traceBeforeSha = NoSha
          /\ resumeCheckpoint = NoRef)
  /\ [][(\/ /\ ~pure.isGitRepo
            /\ last'.event \in {"turn_start", "turn_end", "agent_end",
                                "tool_result", "blame"}
         \/ last'.event = "session_start" /\ ~pure'.isGitRepo)
        => /\ refs' = refs /\ traceRefs' = traceRefs
           /\ traceLog' = traceLog /\ notes' = notes]_vars

\* The session began outside a repository, the directory became one, the
\* agent wrote a file and a loop of that session has just ended.
C33_Witness ==
  /\ sessionId # Null /\ ~pure.isGitRepo /\ pure.exists
  /\ worktree["bar.ts"] # Absent
  /\ last.event = "agent_end"

\* ------------------------------------------------------------------------
\* C34 (SpecFault).  Whichever step of the commit finalization throws
\* (snapshot capture, diff, note write, status, ref cleanup), the
\* tool_result handler returns normally, and it leaves the session as later
\* events need it: the session id, the checkpoint map, the pending and the
\* resume checkpoint are untouched and trace_before is null or names a
\* snapshot of the store.
C34_FinalizationFailureContained ==
  /\ [](last.event = "tool_result" =>
          /\ last.result = "undefined"
          /\ traceBeforeSha \in {NoSha} \cup DOMAIN store)
  /\ [][last'.event = "tool_result" /\ last'.failed =>
          /\ sessionId' = sessionId /\ checkpoints' = checkpoints
          /\ pendingCheckpoint' = pendingCheckpoint
          /\ resumeCheckpoint' = resumeCheckpoint]_vars

\* A finalization has thrown after it appended the synthetic trace.
C34_Witness ==
  /\ last.event = "tool_result" /\ last.failed
  /\ fin.ran /\ ~fin.wrote /\ traceLog # <<>>

C36_EveryTraceListsAFile ==
  \A i \in DOMAIN traceLog : Len(traceLog[i].files) >= 1

\* A loop of session S1 in which no file was written has ended: turn_start
\* and agent_end each took a snapshot and the log is still empty.
C36_Witness ==
  /\ sessionId = "S1" /\ pure.isGitRepo
  /\ last.event = "agent_end" /\ ~last.failed
  /\ worktree = NoTree
  /\ Len(store) >= pure.since + 2
  /\ traceLog = <<>>

\* ------------------------------------------------------------------------
\* C37 (SpecFault).  At every handler boundary of a session in a repository
\* the in-memory checkpoint map is the map rebuildCheckpointsMap computes
\* from the refs: every mapped name is an existing ref, and each entry id
\* is mapped to the newest existing checkpoint of that entry id.
C37_MapMirrorsRefs ==
  sessionId # Null /\ pure.isGitRepo =>
    /\ \A e \in Entries :
         checkpoints[e] # NoRef => \E r \in refs : r.name = checkpoints[e]
    /\ checkpoints = rebuildCheckpointsMap(refs, sessionId)

\* ------------------------------------------------------------------------
\* C38 (SpecFault).  The snapshot windows of the recorded traces never
\* overlap: a trace recorded after another one begins at the snapshot the
\* earlier one ended at, or at a later one; within a loop each trace begins
\* at the turn-start snapshot or where the trace before it ended, also when
\* the commit finalization throws after it appended the synthetic trace.
C38_WindowsNeverOverlap ==
  \A i, j \in DOMAIN traceLog :
    i < j => traceLog[i].after <= traceLog[j].before

\* ------------------------------------------------------------------------
\* C39 (SpecFault).  A trace appended at agent_end begins at a snapshot
\* captured during the same agent loop: trace_before is null after every
\* agent_end, whether or not one of its steps threw, and after a
\* turn_start whose capture threw, so no trace_before of an earlier loop
\* is ever in place.
C39_TraceBeginsInItsLoop ==
  /\ [](last.event = "agent_end" => traceBeforeSha = NoSha)
  /\ [](last.event = "turn_start" /\ last.failed => traceBeforeSha = NoSha)
  /\ [][last'.event = "agent_end" /\ Len(traceLog') > Len(traceLog) =>
          traceLog'[Len(traceLog')].before > pure.since]_vars

\* After earlier activity in the repository, a loop that took its snapshot
\* at turn_start has ended and agent_end has recorded its trace.
C39_Witness ==
  /\ last.event = "agent_end" /\ ~pure.loop
  /\ pure.since >= 3
  /\ Len(traceLog) = 1
  /\ traceLog[1].before = pure.since + 1

\* ------------------------------------------------------------------------
\* C40 (SpecBlame).  For every note and every blamed line the standalone
\* CLI blame gives the line the label class (human, unresolved, untraced,
\* attributed to a trace) that blameCommitted of the extension gives it,
\* also when a resolved range names a trace the note does not hold.
C40_CliAgreesWithExtension ==
  last.event = "cli-blame" =>
    LET ext == blameCommitted(store, head, notes, last.file, last.range)
    IN /\ Len(last.results) = Len(ext)
       /\ \A i \in DOMAIN ext :
            /\ last.results[i].lineNumber = ext[i].lineNumber
            /\ last.results[i].attribution = ext[i].attribution

====
